---- MODULE Spec2Model ----
(***************************************************************************)
(* Key allocation of the distribution app: OutlineuserSerializer.create    *)
(* and the selection, reputation and revocation code it calls.             *)
(***************************************************************************)
EXTENDS Integers, Sequences, FiniteSets, TLC

(***************************************************************************)
(* Bounds of the model.                                                    *)
(***************************************************************************)
MaxKeys == 2          \* create is not called any more once the backends have handed out this many keys
MaxAdminOps == 1      \* administrative edits (server flags, bans, load balancers, locations)
MaxPool == 3          \* servers in the fleets get_server is tried on, beside the fleet of the test
MaxLoad == 2          \* live rows per server in those fleets
HeavyLoad == 200      \* live rows of a crowded server in the pools find_server is tried on
MaxTiers == 4         \* entries of the REPUTATION_MAP settings server_level is tried on
MaxRep == 3           \* largest threshold in those settings
MaxProcs == 2         \* create requests that are served at the same time
MaxTicks == 2         \* days that go by between the runs of the periodic commands
MaxDays == 2          \* largest <days> argument deactivate_keys is run with

(***************************************************************************)
(* Enumerations and settings.                                              *)
(***************************************************************************)
BASIC == 0
LOCATIONED == 1
FIXED_IP == 2
REPUTATION_MAP == <<0, 1, 2, 3>>
None == 0             \* SQL NULL / Python None for ids, locations and group_id

Users == {"u1", "u2"}
Idents == Users \cup {"ghost"}         \* "ghost": a username with no Vpnuser row
Locations == {1, 2}                    \* ids of the Location rows
RequestTypes == {"legacy", "central", "gtf"}

\* An OutlineServer row; a new server is working.
Server(type, level, dist_model, location, user_src) ==
  [type |-> type, level |-> level, dist_model |-> dist_model, location |-> location,
   user_src |-> user_src, active |-> TRUE, is_blocked |-> FALSE, is_distributing |-> TRUE]

\* The fleet the allocation runs against.
Fleet ==
  << Server("legacy",  0, BASIC,      None, "TG"),
     Server("legacy",  1, BASIC,      None, "TG"),
     Server("legacy",  0, LOCATIONED, 1,    "TG"),
     Server("legacy",  1, LOCATIONED, 2,    "TG"),
     Server("central", 0, BASIC,      None, "NA"),
     Server("gtf",     0, BASIC,      None, "NA") >>

VARIABLES
  REAL_VPN_SERVERS,   \* settings.REAL_VPN_SERVERS
  Vpnuser,            \* user -> [channel, reputation, banned]
  OutlineServer,      \* the server table: server id -> row
  OutlineUser,        \* the credential table: row id -> record
  LoadBalancer,       \* servers that have an active LoadBalancer row
  Location,           \* ids of the Location rows with active = True
  backend,            \* keys that exist on the backends: <<server, outline_key_id>>
  nextKey,            \* next key id a backend hands out
  clock,              \* source of created_date / updated_date
  adminOps,           \* administrative edits made so far
  res,                \* what the last operation did and returned
  inflight            \* the create requests served concurrently: worker -> position and locals

vars == << REAL_VPN_SERVERS, Vpnuser, OutlineServer, OutlineUser, LoadBalancer,
           Location, backend, nextKey, clock, adminOps, res, inflight >>

(***************************************************************************)
(* Pure helpers.                                                           *)
(***************************************************************************)
RowIds == DOMAIN OutlineUser
Servers == DOMAIN OutlineServer

SetToSeqs(S) == { f \in [1..Cardinality(S) -> S] : \A i, j \in DOMAIN f : i # j => f[i] # f[j] }

RECURSIVE SumSeq(_)
SumSeq(s) == IF s = << >> THEN 0 ELSE Head(s) + SumSeq(Tail(s))

RECURSIVE ProdSeq(_)
ProdSeq(s) == IF s = << >> THEN 1 ELSE Head(s) * ProdSeq(Tail(s))

Max(S) == CHOOSE x \in S : \A y \in S : y <= x

\* Server.is_working
is_working(srv) == ~srv.is_blocked /\ srv.is_distributing /\ srv.active

\* a scan that answers the lowest index the reputation reaches
level_scan_lowest(map, user_reputation, n) ==
  LET reached == { i \in 0..n : user_reputation >= map[i + 1] }
  IN IF reached = {} THEN 0 ELSE CHOOSE i \in reached : \A j \in reached : i <= j

\* ReputationSystem.server_level: scan the map from the highest index down.
RECURSIVE level_scan(_, _, _)
level_scan(map, user_reputation, n) ==
  IF n < 0 THEN 0
  ELSE IF user_reputation >= map[n + 1] THEN n
  ELSE level_scan(map, user_reputation, n - 1)

server_level(user_reputation) ==
  level_scan(REPUTATION_MAP, user_reputation, Len(REPUTATION_MAP) - 1)

\* ReputationSystem.after_new_key
after_new_key(curr_rep) == curr_rep + 1

(***************************************************************************)
(* find_server on an annotated, ordered pool.  A pool is a sequence of     *)
(* records [id, usercount].  The weights 1/usercount are kept exact by     *)
(* scaling with the product of the counts: after candidate k the draw has  *)
(* gone <= 0 iff prob * N <= 100 * (n_1 + .. + n_k).  The code computes in *)
(* floating point, so on an exact tie the rounded remainder may come out   *)
(* either side of zero: tie says which.                                    *)
(***************************************************************************)
scaled_weight(pool, i) == ProdSeq([k \in DOMAIN pool |-> pool[k].usercount]) \div pool[i].usercount

inverse_total(pool) == SumSeq([k \in DOMAIN pool |-> scaled_weight(pool, k)])

cumulative(pool, i) == SumSeq([k \in 1..i |-> scaled_weight(pool, k)])

\* the draw has gone <= 0 after a candidate whose cumulative weight is cum
stops_at(total, cum, prob, tie) ==
  \/ prob * total < 100 * cum
  \/ prob * total = 100 * cum /\ tie

\* a find_server that answers servers.first() when it meets an idle server
find_server_first(pool, prob, tie) ==
  IF Len(pool) > 1
  THEN IF \E i \in DOMAIN pool : pool[i].usercount = 0
       THEN pool[1].id
       ELSE LET total == inverse_total(pool)
                cum == [i \in DOMAIN pool |-> cumulative(pool, i)]
                stops == { i \in DOMAIN pool : stops_at(total, cum[i], prob, tie) }
            IN IF stops # {}
               THEN pool[CHOOSE i \in stops : \A j \in stops : i <= j].id
               ELSE pool[Len(pool)].id
  ELSE IF Len(pool) = 1 THEN pool[1].id ELSE None

find_server(pool, prob, tie) ==
  IF Len(pool) > 1
  THEN IF \E i \in DOMAIN pool : pool[i].usercount = 0
       THEN pool[CHOOSE i \in DOMAIN pool :
                    /\ pool[i].usercount = 0
                    /\ \A j \in 1..(i - 1) : pool[j].usercount # 0].id
       ELSE LET total == inverse_total(pool)
                cum == [i \in DOMAIN pool |-> cumulative(pool, i)]
                stops == { i \in DOMAIN pool : stops_at(total, cum[i], prob, tie) }
            IN IF stops # {}
               THEN pool[CHOOSE i \in stops : \A j \in stops : i <= j].id
               ELSE pool[Len(pool)].id
  ELSE IF Len(pool) = 1 THEN pool[1].id ELSE None

(***************************************************************************)
(* Queries over the tables.                                                *)
(***************************************************************************)
\* a count of all the rows of a server
usercount_all(table, s) == Cardinality({ i \in DOMAIN table : table[i].server = s })

\* Count('users', filter=Q(users__active=True, users__removed=False))
usercount(table, s) ==
  Cardinality({ i \in DOMAIN table :
                  table[i].server = s /\ table[i].active /\ ~table[i].removed })

\* user.outline_keys: the rows of one user.
outline_keys(table, user) == { i \in DOMAIN table : table[i].user = user }

\* get_server_by_level, before the annotation: the filtered server ids.
filtered_servers(user, level, limited, exclude, dist_model, location) ==
  LET last_servers == { OutlineUser[i].server : i \in outline_keys(OutlineUser, user) }
  IN { s \in Servers :
         /\ OutlineServer[s].type = "legacy"
         /\ OutlineServer[s].active
         /\ OutlineServer[s].is_distributing
         /\ IF limited THEN OutlineServer[s].level = level ELSE OutlineServer[s].level > level
         /\ OutlineServer[s].dist_model = dist_model
         /\ OutlineServer[s].user_src = Vpnuser[user].channel
         /\ (location # None => OutlineServer[s].location = location)
         /\ (exclude => s \notin last_servers) }

\* get_server_by_level: the annotated pools the query may return.  The rows
\* are ordered by -usercount; the order among equal counts is the database's.
get_server_by_level(user, level, limited, exclude, dist_model, location) ==
  LET S == filtered_servers(user, level, limited, exclude, dist_model, location)
  IN { [k \in DOMAIN f |-> [id |-> f[k], usercount |-> usercount(OutlineUser, f[k])]] :
         f \in { g \in SetToSeqs(S) :
                   \A a, b \in DOMAIN g :
                      a < b => usercount(OutlineUser, g[a]) >= usercount(OutlineUser, g[b]) } }

\* a get_server that does not pass the location to the query
candidate_pools_any_location(user, level, dist_model, location) ==
  LET try(exclude, limited) ==
        get_server_by_level(user, level, limited, exclude, dist_model, None)
  IN IF try(TRUE, TRUE) # { << >> } THEN try(TRUE, TRUE)
     ELSE IF try(TRUE, FALSE) # { << >> } THEN try(TRUE, FALSE)
     ELSE IF try(FALSE, TRUE) # { << >> } THEN try(FALSE, TRUE)
     ELSE try(FALSE, FALSE)

\* a get_server that gives up the user's tier before the unused servers
candidate_pools_exclude_last(user, level, dist_model, location) ==
  LET try(exclude, limited) ==
        get_server_by_level(user, level, limited, exclude, dist_model, location)
  IN IF try(TRUE, TRUE) # { << >> } THEN try(TRUE, TRUE)
     ELSE IF try(FALSE, TRUE) # { << >> } THEN try(FALSE, TRUE)
     ELSE IF try(TRUE, FALSE) # { << >> } THEN try(TRUE, FALSE)
     ELSE try(FALSE, FALSE)

\* get_server, one location: the first non-empty query result in the order
\* exclude in [True, False] x limited in [True, False]; the last one if all
\* are empty.
candidate_pools(user, level, dist_model, location) ==
  LET try(exclude, limited) ==
        get_server_by_level(user, level, limited, exclude, dist_model, location)
  IN IF try(TRUE, TRUE) # { << >> } THEN try(TRUE, TRUE)
     ELSE IF try(TRUE, FALSE) # { << >> } THEN try(TRUE, FALSE)
     ELSE IF try(FALSE, TRUE) # { << >> } THEN try(FALSE, TRUE)
     ELSE try(FALSE, FALSE)

\* find_server calls random.randint(0, 100) only when it has more than one
\* server and none of them is idle; elsewhere there is no draw to range over.
randint_draws(pool) ==
  IF Len(pool) > 1 /\ \A i \in DOMAIN pool : pool[i].usercount # 0
  THEN (0..100) \X BOOLEAN
  ELSE { << 0, FALSE >> }

\* The servers get_server may append for one location, over the random draw.
pick_for_location(user, level, dist_model, location) ==
  UNION { { find_server(pool, d[1], d[2]) : d \in randint_draws(pool) } :
            pool \in candidate_pools(user, level, dist_model, location) } \ {None}

\* Location.objects.filter(active=True), in id order.
RECURSIVE active_locations(_)
active_locations(n) ==
  IF n = 0 THEN << >>
  ELSE IF n \in Location THEN Append(active_locations(n - 1), n)
  ELSE active_locations(n - 1)

\* get_server: the server lists it may return.
RECURSIVE server_lists(_, _, _, _)
server_lists(user, level, dist_model, locs) ==
  IF locs = << >> THEN { << >> }
  ELSE LET rest == server_lists(user, level, dist_model, SubSeq(locs, 1, Len(locs) - 1))
           here == pick_for_location(user, level, dist_model, locs[Len(locs)])
       IN IF here = {} THEN rest
          ELSE { Append(r, s) : r \in rest, s \in here }

get_server(user, level, dist_model) ==
  IF dist_model = LOCATIONED
  THEN server_lists(user, level, dist_model, active_locations(Cardinality(Locations)))
  ELSE server_lists(user, level, dist_model, << None >>)

\* an increase_reputation whose basic branch does not look at is_blocked
increase_reputation_unblocked(user, dist_model) ==
  LET keys == outline_keys(OutlineUser, user)
  IN IF dist_model = LOCATIONED
     THEN /\ keys # {}
          /\ \E i \in keys : is_working(OutlineServer[OutlineUser[i].server])
     ELSE IF dist_model = FIXED_IP
     THEN FALSE
     ELSE /\ keys # {}
          /\ LET first == CHOOSE i \in keys : \A j \in keys : i <= j
             IN /\ OutlineServer[OutlineUser[first].server].is_distributing
                /\ OutlineServer[OutlineUser[first].server].active

\* an increase_reputation whose location branch wants every server working
increase_reputation_all(user, dist_model) ==
  LET keys == outline_keys(OutlineUser, user)
  IN IF dist_model = LOCATIONED
     THEN /\ keys # {}
          /\ \A i \in keys : is_working(OutlineServer[OutlineUser[i].server])
     ELSE IF dist_model = FIXED_IP
     THEN FALSE
     ELSE /\ keys # {}
          /\ LET first == CHOOSE i \in keys : \A j \in keys : i <= j
             IN is_working(OutlineServer[OutlineUser[first].server])

\* increase_reputation
increase_reputation(user, dist_model) ==
  LET keys == outline_keys(OutlineUser, user)
  IN IF dist_model = LOCATIONED
     THEN /\ keys # {}
          /\ \E i \in keys : is_working(OutlineServer[OutlineUser[i].server])
     ELSE IF dist_model = FIXED_IP
     THEN FALSE
     ELSE /\ keys # {}
          /\ LET first == CHOOSE i \in keys : \A j \in keys : i <= j
             IN is_working(OutlineServer[OutlineUser[first].server])

\* Vpnuser.get_keys, as the set of row ids it returns.
get_keys(table, user) ==
  LET live == { i \in outline_keys(table, user) : ~table[i].removed }
  IN IF live = {} THEN {}
     ELSE LET last_key == CHOOSE i \in live :
                             \A j \in live : table[j].updated_date <= table[i].updated_date
              dist_model == OutlineServer[table[last_key].server].dist_model
          IN IF dist_model = LOCATIONED
             THEN IF table[last_key].group_id # None
                  THEN { i \in live : table[i].group_id = table[last_key].group_id }
                  ELSE {}
             ELSE IF dist_model = FIXED_IP THEN {}
             ELSE { last_key }

\* get_key_dict
get_key_dict(table, ids) ==
  LET order == CHOOSE f \in SetToSeqs(ids) : \A a, b \in DOMAIN f : a < b => f[a] < f[b]
  IN [k \in DOMAIN order |->
        [id |-> order[k],
         outline_key_id |-> table[order[k]].outline_key_id,
         server |-> table[order[k]].server]]

(***************************************************************************)
(* remove_key_from_server.  keys is a sequence of key dicts, fault says    *)
(* for each position what the backend does to the call: "none" (it answers *)
(* according to whether the key is there), "timeout" or "error".  The      *)
(* result carries the updated table and backends, the failed ids, the      *)
(* backend calls made and the exception that escaped, if any.              *)
(***************************************************************************)
mark_gone(table, id) ==
  IF id \in DOMAIN table THEN [table EXCEPT ![id].exists_on_server = FALSE] ELSE table

\* the part of one iteration for a key on a server of type 'gtf': HTTP DELETE,
\* which answers 200 or 404 unless the fault is its own
remove_gtf(st, key, flt) ==
  LET k == << key.server, key.outline_key_id >>
      called == [st EXCEPT !.calls = @ \cup { << "http_delete", key.server, key.outline_key_id >> }]
  IN IF flt = "timeout" THEN [called EXCEPT !.raised = "RequestException"]
     ELSE IF flt = "error" THEN [called EXCEPT !.failed = Append(@, key.id)]
     ELSE [called EXCEPT !.table = mark_gone(@, key.id), !.backend = @ \ {k}]

\* what the Outline manager's delete_key raises: the fault of the call, or
\* DoesNotExistError for a key the backend does not have
delete_key_answer(bk, key, flt) ==
  IF flt = "timeout" THEN "OutlineTimeoutError"
  ELSE IF flt \in {"error", "manager_error"} THEN "Exception"
  ELSE IF << key.server, key.outline_key_id >> \in bk THEN "" ELSE "DoesNotExistError"

\* a removal that takes a timeout for a key that is gone
remove_outline_timeout_gone(st, key, flt) ==
  LET called == [st EXCEPT !.calls = @ \cup { << "delete", key.server, key.outline_key_id >> }]
      answer == delete_key_answer(st.backend, key, flt)
  IN IF ~OutlineServer[key.server].active
     THEN [st EXCEPT !.table = mark_gone(@, key.id)]
     ELSE IF answer \in {"OutlineTimeoutError", "DoesNotExistError"}
     THEN [called EXCEPT !.table = mark_gone(@, key.id)]
     ELSE IF answer = "Exception" THEN [called EXCEPT !.failed = Append(@, key.id)]
     ELSE [called EXCEPT !.table = mark_gone(@, key.id),
                         !.backend = @ \ { << key.server, key.outline_key_id >> }]

\* the part of one iteration that every key of a real backend goes through:
\* inactive servers are skipped, the others get an Outline manager delete
remove_outline(st, key, flt) ==
  LET called == [st EXCEPT !.calls = @ \cup { << "delete", key.server, key.outline_key_id >> }]
      answer == delete_key_answer(st.backend, key, flt)
  IN IF ~OutlineServer[key.server].active
     THEN [st EXCEPT !.table = mark_gone(@, key.id)]
     ELSE IF answer = "OutlineTimeoutError" THEN [called EXCEPT !.failed = Append(@, key.id)]
     ELSE IF answer = "DoesNotExistError" THEN [called EXCEPT !.table = mark_gone(@, key.id)]
     ELSE IF answer = "Exception" THEN [called EXCEPT !.failed = Append(@, key.id)]
     ELSE [called EXCEPT !.table = mark_gone(@, key.id),
                         !.backend = @ \ { << key.server, key.outline_key_id >> }]

remove_one(st, key, flt) ==
  IF st.raised # "" THEN st
  ELSE IF "id" \notin DOMAIN key THEN [st EXCEPT !.raised = "KeyError"]
  ELSE IF ~REAL_VPN_SERVERS THEN [st EXCEPT !.table = mark_gone(@, key.id)]
  ELSE IF OutlineServer[key.server].type = "gtf"
       THEN LET g == remove_gtf(st, key, flt)
            IN IF g.raised # "" THEN g ELSE remove_outline(g, key, flt)
       ELSE remove_outline(st, key, flt)

RECURSIVE remove_loop(_, _, _, _)
remove_loop(st, keys, fault, n) ==
  IF n = 0 THEN st
  ELSE remove_one(remove_loop(st, keys, fault, n - 1), keys[n], fault[n])

remove_key_from_server(table, bk, keys, fault) ==
  remove_loop([table |-> table, backend |-> bk, failed |-> << >>, calls |-> {}, raised |-> ""],
              keys, fault, Len(keys))

\* what the backends may do to the n calls of one remove_key_from_server; with
\* the simulated backends there is no call that could go wrong
Faults(n) ==
  IF REAL_VPN_SERVERS THEN [1..n -> {"none", "timeout", "error"}] ELSE [1..n -> {"none"}]

\* the same, with the fault that only the Outline manager call meets: the
\* HTTP DELETE of a gtf key before it is answered
ManagerFaults(n) ==
  IF REAL_VPN_SERVERS THEN [1..n -> {"none", "timeout", "error", "manager_error"}]
  ELSE [1..n -> {"none"}]

\* a deactivate that keeps a key whose removal from the server failed
deactivate_if_gone(row, issue, transfer, now) ==
  IF row.request_type = "legacy" /\ ~row.exists_on_server
  THEN [row EXCEPT !.user_issue = issue, !.transfer = transfer, !.removed = TRUE,
                   !.delete_date = None, !.deletion_cause = "NA", !.updated_date = now]
  ELSE row

\* OutlineUser.deactivate
deactivate(row, issue, transfer, now) ==
  IF row.request_type = "legacy"
  THEN [row EXCEPT !.user_issue = issue, !.transfer = transfer, !.removed = TRUE,
                   !.delete_date = None, !.deletion_cause = "NA", !.updated_date = now]
  ELSE row

\* a reactivate that does not look at the request type
reactivate_any(row, now) ==
  [row EXCEPT !.user_issue = None, !.transfer = None, !.removed = FALSE,
              !.delete_date = None, !.deletion_cause = "NA", !.updated_date = now]

\* OutlineUser.reactivate
reactivate(row, now) ==
  IF row.request_type = "legacy"
  THEN [row EXCEPT !.user_issue = None, !.transfer = None, !.removed = FALSE,
                   !.delete_date = None, !.deletion_cause = "NA", !.updated_date = now]
  ELSE row

\* remove_keys_from_db: deactivate the keys in order, one save each
RECURSIVE remove_keys_from_db(_, _, _, _)
remove_keys_from_db(table, keys, user_issue, now) ==
  IF keys = << >> THEN table
  ELSE LET id == keys[Len(keys)].id
           before == remove_keys_from_db(table, SubSeq(keys, 1, Len(keys) - 1), user_issue, now)
       IN [before EXCEPT ![id] = deactivate(@, user_issue, None, now + Len(keys))]

(***************************************************************************)
(* OutlineuserSerializer.create                                            *)
(***************************************************************************)
NewRow(user, server, key_id, reputation, group_id, request_type, now) ==
  [user |-> user, server |-> server, outline_key_id |-> key_id, reputation |-> reputation,
   transfer |-> None, user_issue |-> None, active |-> TRUE, removed |-> FALSE,
   exists_on_server |-> TRUE, group_id |-> group_id, delete_date |-> None,
   deletion_cause |-> "NA", request_type |-> request_type, created_date |-> now,
   updated_date |-> now]

Result(data, request_type, status, detail, last_keys, created, provisioned, calls, servers) ==
  [op |-> "create", user |-> data.user, request_type |-> request_type,
   dist_model |-> IF request_type = "legacy" /\ data.has_model THEN data.model ELSE BASIC,
   status |-> status, detail |-> detail, last_keys |-> last_keys, created |-> created,
   provisioned |-> provisioned, calls |-> calls, servers |-> servers]

\* everything create can write, in one place
Commit(table, users, bk, nk, now, r) ==
  /\ OutlineUser' = table
  /\ Vpnuser' = users
  /\ backend' = bk
  /\ nextKey' = nk
  /\ clock' = now
  /\ res' = r
  /\ UNCHANGED << REAL_VPN_SERVERS, OutlineServer, LoadBalancer, Location, adminOps, inflight >>

\* a failure of a create that has dealt with the previous keys first
Fail_after_removal(data, request_type, status, detail, last_keys, bk, nk, provisioned, calls, servers) ==
  Commit(remove_keys_from_db(OutlineUser, get_key_dict(OutlineUser, last_keys), None, clock),
         Vpnuser, bk, nk, clock,
         Result(data, request_type, status, detail, last_keys, {}, provisioned, calls, servers))

\* a failure that leaves the tables as they were (the transaction, if one was
\* open, is rolled back); bk and nk carry what the backends went through
Fail(data, request_type, status, detail, last_keys, bk, nk, provisioned, calls, servers) ==
  Commit(OutlineUser, Vpnuser, bk, nk, clock,
         Result(data, request_type, status, detail, last_keys, {}, provisioned, calls, servers))

\* the except branch of create once create_keys has raised: revert the keys of
\* created_keys on the servers, then answer NotAcceptable
Revert(data, request_type, detail, last_keys, created_keys, bk, nk, provisioned, calls, servers) ==
  \E fault \in Faults(Len(created_keys)) :
    LET rm == remove_key_from_server(OutlineUser, bk, created_keys, fault)
    IN IF created_keys = << >>
       THEN Fail(data, request_type, "NotAcceptable", detail, last_keys,
                 bk, nk, provisioned, calls, servers)
       ELSE IF rm.raised # ""
       THEN Fail(data, request_type, "Unhandled", rm.raised, last_keys,
                 rm.backend, nk, provisioned, calls \cup rm.calls, servers)
       ELSE Fail(data, request_type, "NotAcceptable", detail, last_keys,
                 rm.backend, nk, provisioned, calls \cup rm.calls, servers)

\* the rest of create after create_keys has returned: the online config,
\* then the user's previous legacy keys
Succeed(data, request_type, user, table, users, bk, nk, now, last_keys, created, provisioned, calls, servers) ==
  \E s3_ok \in IF REAL_VPN_SERVERS THEN BOOLEAN ELSE {TRUE}, user_issue \in {None},
     fault \in Faults(Cardinality(last_keys)) :
    LET last_keys_list == get_key_dict(table, last_keys)
        rm == remove_key_from_server(table, bk, last_keys_list, fault)
        after == remove_keys_from_db(rm.table, last_keys_list, user_issue, now)
    IN IF REAL_VPN_SERVERS /\ ~s3_ok
       THEN Commit(table, users, bk, nk, now,
                   Result(data, request_type, "Unhandled", "S3", last_keys, created,
                          provisioned, calls, servers))
       ELSE IF last_keys = {}
       THEN /\ user_issue = None
            /\ Commit(table, users, bk, nk, now,
                      Result(data, request_type, "ok", "", last_keys, created,
                             provisioned, calls, servers))
       ELSE IF rm.raised # ""
       THEN Commit(rm.table, users, rm.backend, nk, now,
                   Result(data, request_type, "Unhandled", rm.raised, last_keys, created,
                          provisioned, calls \cup rm.calls, servers))
       ELSE Commit(after, users, rm.backend, nk, now + Cardinality(last_keys),
                   Result(data, request_type, "ok", "", last_keys, created,
                          provisioned, calls \cup rm.calls, servers))

\* create_keys: Max('group_id') over the table, plus one; 1 when there is none
next_group_id(table) ==
  LET groups == { table[i].group_id : i \in DOMAIN table } \ {None}
  IN IF groups # {} THEN Max(groups) + 1 ELSE 1

\* create_keys, request_type == 'legacy'
CreateLegacy(data, user, last_keys) ==
  LET dist_model == IF data.has_model THEN data.model ELSE BASIC
      group_id == IF dist_model = LOCATIONED THEN next_group_id(OutlineUser) ELSE None
      new_rep == IF increase_reputation(user, dist_model)
                 THEN after_new_key(Vpnuser[user].reputation)
                 ELSE Vpnuser[user].reputation
      level == server_level(new_rep)
  IN \E server_list \in get_server(user, level, dist_model) :
     \E fail_at \in 0..Len(server_list) :
       IF server_list = << >>
       THEN Revert(data, "legacy", "No server found for user", last_keys, << >>,
                   backend, nextKey, {}, {}, << >>)
       ELSE /\ fail_at > 0 => REAL_VPN_SERVERS
            /\ LET n == IF fail_at = 0 THEN Len(server_list) ELSE fail_at - 1
                   key_id(k) == nextKey + k - 1
                   created_keys == [k \in 1..n |->
                                      [server |-> server_list[k], outline_key_id |-> key_id(k)]]
                   prov == IF REAL_VPN_SERVERS
                           THEN { << server_list[k], key_id(k) >> : k \in 1..n } ELSE {}
                   calls == IF REAL_VPN_SERVERS
                            THEN { << "new", server_list[k], key_id(k) >> : k \in 1..n }
                                 \cup (IF fail_at > 0
                                       THEN { << "new", server_list[fail_at], None >> } ELSE {})
                            ELSE {}
                   table == OutlineUser \o
                            [k \in 1..n |-> NewRow(user, server_list[k], key_id(k), new_rep,
                                                   group_id, "legacy", clock + k)]
                   users == [Vpnuser EXCEPT ![user].reputation = new_rep]
               IN IF fail_at > 0
                  THEN Revert(data, "legacy", "Outline key creation error", last_keys,
                              created_keys, backend \cup prov, nextKey + n, prov, calls,
                              SubSeq(server_list, 1, fail_at))
                  ELSE Succeed(data, "legacy", user, table, users, backend \cup prov,
                               nextKey + n, clock + n, last_keys,
                               (Len(OutlineUser) + 1)..(Len(OutlineUser) + n),
                               prov, calls, server_list)

\* create_keys, request_type == 'central' or 'gtf'
CreateCentral(data, user, last_keys, request_type) ==
  LET pool == { s \in Servers : /\ OutlineServer[s].type = request_type
                                /\ OutlineServer[s].active
                                /\ OutlineServer[s].is_distributing }
      networked == REAL_VPN_SERVERS \/ request_type = "gtf"
  IN IF pool = {}
     THEN Revert(data, request_type, "No server found", last_keys, << >>,
                 backend, nextKey, {}, {}, << >>)
     ELSE \E server \in pool, key_ok \in BOOLEAN :
            LET prov == IF networked THEN { << server, nextKey >> } ELSE {}
                calls == IF networked THEN { << "new", server, nextKey >> } ELSE {}
                created_keys == << [server |-> server, outline_key_id |-> nextKey] >>
                table == Append(OutlineUser,
                                NewRow(user, server, nextKey, 0, None, request_type, clock + 1))
            IN IF ~key_ok
               THEN /\ networked
                    /\ Revert(data, request_type, "Outline key creation error", last_keys, << >>,
                              backend, nextKey, {}, { << "new", server, None >> }, << server >>)
               ELSE IF server \notin LoadBalancer
               THEN Revert(data, request_type, "Active load balancer not found", last_keys, << >>,
                           backend \cup prov, nextKey + 1, prov, calls, << server >>)
               ELSE IF data.has_model
               THEN Revert(data, request_type, "TypeError", last_keys, created_keys,
                           backend \cup prov, nextKey + 1, prov, calls, << server >>)
               ELSE Succeed(data, request_type, user, table, Vpnuser, backend \cup prov,
                            nextKey + 1, clock + 1, last_keys, { Len(OutlineUser) + 1 },
                            prov, calls, << server >>)

\* a key check that only looks for central keys
non_legacy_keys_central_only(user) ==
  { i \in outline_keys(OutlineUser, user) : OutlineUser[i].request_type = "central" }

\* create: the user's keys that are not legacy keys
non_legacy_keys(user) ==
  { i \in outline_keys(OutlineUser, user) : OutlineUser[i].request_type # "legacy" }

\* the checks without the one for banned users
rejection_without_ban(data) ==
  IF data.user \notin Users THEN "User does not exist"
  ELSE IF non_legacy_keys(data.user) # {} THEN "User already has a key"
  ELSE ""

\* create: the checks made before anything else; "" when the request passes
rejection(data) ==
  IF data.user \notin Users THEN "User does not exist"
  ELSE IF non_legacy_keys(data.user) # {} THEN "User already has a key"
  ELSE IF Vpnuser[data.user].banned THEN "User is banned"
  ELSE ""

\* create: the distinct types of the active, distributing servers
active_types ==
  { OutlineServer[s].type :
      s \in { t \in Servers : OutlineServer[t].active /\ OutlineServer[t].is_distributing } }

Create(data) ==
  /\ nextKey <= MaxKeys
  /\ IF rejection(data) # ""
     THEN Fail(data, "", "NotAcceptable", rejection(data), {}, backend, nextKey, {}, {}, << >>)
     ELSE IF active_types = {}
     THEN Fail(data, "", "Unhandled", "IndexError", {}, backend, nextKey, {}, {}, << >>)
     ELSE \E random_request_type \in IF data.request_type = "unset" THEN active_types ELSE {""} :
            LET user == data.user
                request_type == IF data.request_type = "unset"
                                THEN random_request_type ELSE data.request_type
                last_keys == { i \in outline_keys(OutlineUser, user) :
                                 OutlineUser[i].request_type = "legacy" }
            IN IF request_type = "legacy" THEN CreateLegacy(data, user, last_keys)
               ELSE IF request_type \in {"central", "gtf"}
               THEN CreateCentral(data, user, last_keys, request_type)
               ELSE Revert(data, request_type, "Request type is not acceptable",
                           last_keys, << >>, backend, nextKey, {}, {}, << >>)

\* what a client may send to create
Requests ==
  { d \in [user : Idents, request_type : RequestTypes \cup {"unset", "bogus"},
            has_model : BOOLEAN, model : {BASIC, LOCATIONED, FIXED_IP}] :
      /\ ~d.has_model => d.model = BASIC
      /\ d.request_type \in {"central", "gtf", "bogus"} => d.model = BASIC
      /\ d.request_type = "legacy" /\ d.has_model => d.model # BASIC
      /\ d.request_type = "unset" => ~d.has_model
      /\ d.user \notin Users => d.request_type = "unset" /\ ~d.has_model }

(***************************************************************************)
(* Administrative edits: the flags the allocation code reads but does not  *)
(* write.                                                                  *)
(***************************************************************************)
Idle == [op |-> "admin"]

Edited ==
  /\ adminOps < MaxAdminOps
  /\ adminOps' = adminOps + 1
  /\ res' = Idle

SetServerFlag(s, flag) ==
  /\ Edited
  /\ OutlineServer' = [OutlineServer EXCEPT ![s][flag] = ~@]
  /\ UNCHANGED << REAL_VPN_SERVERS, Vpnuser, OutlineUser, LoadBalancer, Location,
                  backend, nextKey, clock, inflight >>

SetBanned(u) ==
  /\ Edited
  /\ Vpnuser' = [Vpnuser EXCEPT ![u].banned = ~@]
  /\ UNCHANGED << REAL_VPN_SERVERS, OutlineServer, OutlineUser, LoadBalancer, Location,
                  backend, nextKey, clock, inflight >>

SetLoadBalancer(s) ==
  /\ Edited
  /\ LoadBalancer' = IF s \in LoadBalancer THEN LoadBalancer \ {s} ELSE LoadBalancer \cup {s}
  /\ UNCHANGED << REAL_VPN_SERVERS, Vpnuser, OutlineServer, OutlineUser, Location,
                  backend, nextKey, clock, inflight >>

SetLocation(l) ==
  /\ Edited
  /\ Location' = IF l \in Location THEN Location \ {l} ELSE Location \cup {l}
  /\ UNCHANGED << REAL_VPN_SERVERS, Vpnuser, OutlineServer, OutlineUser, LoadBalancer,
                  backend, nextKey, clock, inflight >>

Init ==
  /\ REAL_VPN_SERVERS \in BOOLEAN
  /\ Vpnuser = [u \in Users |-> [channel |-> IF u = "u1" THEN "TG" ELSE "EM",
                                  reputation |-> 0, banned |-> FALSE]]
  /\ OutlineServer = Fleet
  /\ OutlineUser = << >>
  /\ LoadBalancer = { s \in DOMAIN Fleet : Fleet[s].type # "legacy" }
  /\ Location = Locations
  /\ backend = {}
  /\ nextKey = 1
  /\ clock = 0
  /\ adminOps = 0
  /\ inflight = << >>
  /\ res = Idle

\* the edits the administrators make in this model
FlagEdits ==
  { << 1, "is_blocked" >>, << 3, "is_blocked" >>,
    << 1, "active" >>, << 1, "is_distributing" >>, << 5, "active" >> }

Next ==
  \/ \E data \in Requests : Create(data)
  \/ \E e \in FlagEdits : SetServerFlag(e[1], e[2])
  \/ SetBanned("u1")
  \/ SetLoadBalancer(5)
  \/ SetLocation(2)

Spec == Init /\ [][Next]_vars

(***************************************************************************)
(* create against a fleet of which whole server types are out of service:  *)
(* every server of the types in down has active = False.                   *)
(***************************************************************************)
Outages == (SUBSET RequestTypes) \ { {} }

OutageInit ==
  /\ REAL_VPN_SERVERS \in BOOLEAN
  /\ Vpnuser = [u \in Users |-> [channel |-> IF u = "u1" THEN "TG" ELSE "EM",
                                  reputation |-> 0, banned |-> FALSE]]
  /\ \E down \in Outages :
       OutlineServer = [s \in DOMAIN Fleet |->
                          [Fleet[s] EXCEPT !.active = Fleet[s].type \notin down]]
  /\ OutlineUser = << >>
  /\ LoadBalancer = { s \in DOMAIN Fleet : Fleet[s].type # "legacy" }
  /\ Location = Locations
  /\ backend = {}
  /\ nextKey = 1
  /\ clock = 0
  /\ adminOps = 0
  /\ inflight = << >>
  /\ res = Idle

OutageNext == \E data \in Requests : Create(data)

OutageSpec == OutageInit /\ [][OutageNext]_vars

(***************************************************************************)
(* create served by several workers at once, for the central and gtf       *)
(* request types.  A request reads the tables when it makes its checks and *)
(* writes them inside transaction.atomic() in create_keys; the two are     *)
(* separate steps, and other requests may run in between.                  *)
(***************************************************************************)
Procs == 1..MaxProcs

NoRequest == [pc |-> "idle"]

\* the locals of a request once it has returned
Returned(req, status, detail, row) ==
  [pc |-> "done", user |-> req.user, request_type |-> req.request_type,
   pending |-> req.pending, status |-> status, detail |-> detail, row |-> row]

\* an INSERT that a constraint of one non-legacy row per user turns down
objects_create_one_per_user(table, row) ==
  IF \E i \in DOMAIN table : table[i].user = row.user /\ table[i].request_type # "legacy"
  THEN table
  ELSE Append(table, row)

\* OutlineUser.objects.create: the table has no constraint on user
objects_create(table, row) == Append(table, row)

\* create up to the try block: the checks on the user and the reads of the
\* server types and of the user's legacy keys
RaceBegin(p, data) ==
  /\ inflight[p].pc = "idle"
  /\ LET req == [user |-> data.user, request_type |-> data.request_type,
                 pending |-> { q \in Procs : /\ inflight[q].pc = "checked"
                                              /\ inflight[q].user = data.user }]
     IN inflight' =
          [inflight EXCEPT ![p] =
             IF rejection(data) # ""
             THEN Returned(req, "NotAcceptable", rejection(data), None)
             ELSE IF active_types = {}
             THEN Returned(req, "Unhandled", "IndexError", None)
             ELSE [pc |-> "checked", user |-> data.user, request_type |-> data.request_type,
                   pending |-> req.pending,
                   last_keys |-> { i \in outline_keys(OutlineUser, data.user) :
                                     OutlineUser[i].request_type = "legacy" }]]
  /\ UNCHANGED << REAL_VPN_SERVERS, Vpnuser, OutlineServer, OutlineUser, LoadBalancer,
                  Location, backend, nextKey, clock, adminOps, res >>

\* the try block of create and what follows it: create_keys in its
\* transaction, the online config, the user's previous legacy keys
RaceCreateKeys(p) ==
  /\ inflight[p].pc = "checked"
  /\ LET req == inflight[p]
         pool == { s \in Servers : /\ OutlineServer[s].type = req.request_type
                                   /\ OutlineServer[s].active
                                   /\ OutlineServer[s].is_distributing }
         networked == REAL_VPN_SERVERS \/ req.request_type = "gtf"
         done(table, bk, nk, now, status, detail, row) ==
           /\ OutlineUser' = table
           /\ backend' = bk
           /\ nextKey' = nk
           /\ clock' = now
           /\ inflight' = [inflight EXCEPT ![p] = Returned(req, status, detail, row)]
     IN IF pool = {}
        THEN done(OutlineUser, backend, nextKey, clock, "NotAcceptable", "No server found", None)
        ELSE \E server \in pool, key_ok \in BOOLEAN,
                s3_ok \in IF REAL_VPN_SERVERS THEN BOOLEAN ELSE {TRUE},
                fault \in Faults(Cardinality(req.last_keys)) :
               LET bk == IF networked THEN backend \cup { << server, nextKey >> } ELSE backend
                   table == objects_create(OutlineUser,
                                           NewRow(req.user, server, nextKey, 0, None,
                                                  req.request_type, clock + 1))
                   last_keys_list == get_key_dict(table, req.last_keys)
                   rm == remove_key_from_server(table, bk, last_keys_list, fault)
                   after == remove_keys_from_db(rm.table, last_keys_list, None, clock + 1)
               IN IF ~key_ok
                  THEN /\ networked
                       /\ done(OutlineUser, backend, nextKey, clock,
                               "NotAcceptable", "Outline key creation error", None)
                  ELSE IF server \notin LoadBalancer
                  THEN done(OutlineUser, bk, nextKey + 1, clock,
                            "NotAcceptable", "Active load balancer not found", None)
                  ELSE IF ~s3_ok
                  THEN done(table, bk, nextKey + 1, clock + 1, "Unhandled", "S3", Len(table))
                  ELSE IF req.last_keys = {}
                  THEN done(table, bk, nextKey + 1, clock + 1, "ok", "", Len(table))
                  ELSE IF rm.raised # ""
                  THEN done(rm.table, rm.backend, nextKey + 1, clock + 1,
                            "Unhandled", rm.raised, Len(table))
                  ELSE done(after, rm.backend, nextKey + 1,
                            clock + 1 + Cardinality(req.last_keys), "ok", "", Len(table))
  /\ UNCHANGED << REAL_VPN_SERVERS, Vpnuser, OutlineServer, LoadBalancer, Location,
                  adminOps, res >>

RaceRequests == [user : Users, request_type : {"central", "gtf"}]

RaceInit ==
  /\ REAL_VPN_SERVERS \in BOOLEAN
  /\ Vpnuser = [u \in Users |-> [channel |-> IF u = "u1" THEN "TG" ELSE "EM",
                                  reputation |-> 0, banned |-> FALSE]]
  /\ OutlineServer = Fleet
  /\ OutlineUser = << >>
  /\ LoadBalancer \in { { s \in DOMAIN Fleet : Fleet[s].type # "legacy" },
                         { s \in DOMAIN Fleet : Fleet[s].type = "gtf" } }
  /\ Location = Locations
  /\ backend = {}
  /\ nextKey = 1
  /\ clock = 0
  /\ adminOps = 0
  /\ res = Idle
  /\ inflight = [p \in Procs |-> NoRequest]

RaceNext ==
  \/ \E p \in Procs, data \in RaceRequests : RaceBegin(p, data)
  \/ \E p \in Procs : RaceCreateKeys(p)

RaceSpec == RaceInit /\ [][RaceNext]_vars

(***************************************************************************)
(* Location-based creates served at the same time: create_keys reads the   *)
(* largest group_id and picks the servers, and stores its rows later.      *)
(***************************************************************************)
\* create up to the loop over the servers in create_keys: the checks, then
\* the reads of Max('group_id'), of the reputation and of the servers
GroupBegin(p, user) ==
  /\ inflight[p].pc = "idle"
  /\ LET data == [user |-> user, request_type |-> "legacy", has_model |-> TRUE,
                  model |-> LOCATIONED]
         new_rep == IF increase_reputation(user, LOCATIONED)
                    THEN after_new_key(Vpnuser[user].reputation)
                    ELSE Vpnuser[user].reputation
         pending == { q \in Procs : inflight[q].pc = "grouped" }
     IN IF rejection(data) # ""
        THEN inflight' = [inflight EXCEPT ![p] =
                            [pc |-> "done", user |-> user, pending |-> pending,
                             status |-> "NotAcceptable", group_id |-> None, rows |-> {}]]
        ELSE \E server_list \in get_server(user, server_level(new_rep), LOCATIONED) :
               inflight' = [inflight EXCEPT ![p] =
                              [pc |-> "grouped", user |-> user, pending |-> pending,
                               group_id |-> next_group_id(OutlineUser),
                               new_rep |-> new_rep, server_list |-> server_list,
                               last_keys |-> { i \in outline_keys(OutlineUser, user) :
                                                 OutlineUser[i].request_type = "legacy" }]]
  /\ UNCHANGED << REAL_VPN_SERVERS, Vpnuser, OutlineServer, OutlineUser, LoadBalancer,
                  Location, backend, nextKey, clock, adminOps, res >>

\* the loop over the servers, the commit, and the user's previous keys
GroupInsert(p) ==
  /\ inflight[p].pc = "grouped"
  /\ LET req == inflight[p]
         n == Len(req.server_list)
         prov == IF REAL_VPN_SERVERS
                 THEN { << req.server_list[k], nextKey + k - 1 >> : k \in 1..n } ELSE {}
         table == OutlineUser \o
                  [k \in 1..n |-> NewRow(req.user, req.server_list[k], nextKey + k - 1,
                                         req.new_rep, req.group_id, "legacy", clock + k)]
         last_keys_list == get_key_dict(table, req.last_keys)
     IN IF n = 0
        THEN /\ inflight' = [inflight EXCEPT ![p] =
                               [pc |-> "done", user |-> req.user, pending |-> req.pending,
                                status |-> "NotAcceptable", group_id |-> None, rows |-> {}]]
             /\ UNCHANGED << Vpnuser, OutlineUser, backend, nextKey, clock >>
        ELSE \E fault \in Faults(Cardinality(req.last_keys)) :
               LET rm == remove_key_from_server(table, backend \cup prov, last_keys_list, fault)
               IN /\ OutlineUser' = remove_keys_from_db(rm.table, last_keys_list, None, clock + n)
                  /\ Vpnuser' = [Vpnuser EXCEPT ![req.user].reputation = req.new_rep]
                  /\ backend' = rm.backend
                  /\ nextKey' = nextKey + n
                  /\ clock' = clock + n + Cardinality(req.last_keys)
                  /\ inflight' = [inflight EXCEPT ![p] =
                                    [pc |-> "done", user |-> req.user, pending |-> req.pending,
                                     status |-> "ok", group_id |-> req.group_id,
                                     rows |-> (Len(OutlineUser) + 1)..(Len(OutlineUser) + n)]]
  /\ UNCHANGED << REAL_VPN_SERVERS, OutlineServer, LoadBalancer, Location, adminOps, res >>

\* a request has returned and its worker takes the next one
GroupReturn(p) ==
  /\ inflight[p].pc = "done"
  /\ nextKey <= MaxKeys
  /\ inflight' = [inflight EXCEPT ![p] = NoRequest]
  /\ UNCHANGED << REAL_VPN_SERVERS, Vpnuser, OutlineServer, OutlineUser, LoadBalancer,
                  Location, backend, nextKey, clock, adminOps, res >>

GroupInit ==
  /\ REAL_VPN_SERVERS \in BOOLEAN
  /\ Vpnuser = [u \in Users |-> [channel |-> "TG", reputation |-> 0, banned |-> FALSE]]
  /\ OutlineServer = Fleet
  /\ OutlineUser = << >>
  /\ LoadBalancer = {}
  /\ Location \in (SUBSET Locations) \ {{}}
  /\ backend = {}
  /\ nextKey = 1
  /\ clock = 0
  /\ adminOps = 0
  /\ res = Idle
  /\ inflight = [p \in Procs |-> NoRequest]

GroupNext ==
  \/ \E p \in Procs, user \in Users : GroupBegin(p, user)
  \/ \E p \in Procs : GroupInsert(p)
  \/ \E p \in Procs : GroupReturn(p)

GroupSpec == GroupInit /\ [][GroupNext]_vars

(***************************************************************************)
(* The user API beside create: DELETE on a user (VpnuserView) and the      *)
(* update of its banned flag (VpnuserSerializer.update).  Here a Vpnuser   *)
(* row also carries banned_reason and delete_date.                         *)
(***************************************************************************)
PROFILE_DELETE_DELAY == 7     \* days, when the settings do not say

\* a destroy that deletes the row of the user
hard_delete(users, user, now) == [u \in DOMAIN users \ {user} |-> users[u]]

\* perform_destroy, the fields it sets before instance.save()
mark_deleted(users, user, now) ==
  [users EXCEPT ![user].banned = TRUE,
                ![user].banned_reason = "DELETED",
                ![user].delete_date = now + PROFILE_DELETE_DELAY]

\* VpnuserView: DELETE.  get_object answers 404 for an unknown username;
\* perform_destroy saves the ban, removes the online config files, then
\* revokes and deactivates the keys that are not removed.
Destroy(username) ==
  IF username \notin DOMAIN Vpnuser
  THEN /\ res' = [op |-> "destroy", user |-> username, status |-> "Http404", now |-> clock]
       /\ UNCHANGED << REAL_VPN_SERVERS, Vpnuser, OutlineServer, OutlineUser, LoadBalancer,
                       Location, backend, nextKey, clock, adminOps, inflight >>
  ELSE LET keys == { i \in outline_keys(OutlineUser, username) : ~OutlineUser[i].removed }
           keys_list == get_key_dict(OutlineUser, keys)
           has_config == REAL_VPN_SERVERS /\ outline_keys(OutlineUser, username) # {}
       IN \E s3_ok \in IF has_config THEN BOOLEAN ELSE {TRUE},
             fault \in Faults(Cardinality(keys)) :
            LET rm == remove_key_from_server(OutlineUser, backend, keys_list, fault)
                after == remove_keys_from_db(rm.table, keys_list, None, clock)
                answer(status) ==
                  res' = [op |-> "destroy", user |-> username, status |-> status, now |-> clock]
            IN /\ Vpnuser' = mark_deleted(Vpnuser, username, clock)
               /\ IF ~s3_ok
                  THEN /\ answer("Unhandled")
                       /\ UNCHANGED << OutlineUser, backend, clock >>
                  ELSE IF rm.raised # ""
                  THEN /\ answer("Unhandled")
                       /\ OutlineUser' = rm.table
                       /\ backend' = rm.backend
                       /\ UNCHANGED clock
                  ELSE /\ answer("ok")
                       /\ OutlineUser' = after
                       /\ backend' = rm.backend
                       /\ clock' = IF after = rm.table THEN clock
                                   ELSE clock + Cardinality(keys)
               /\ UNCHANGED << REAL_VPN_SERVERS, OutlineServer, LoadBalancer, Location,
                               nextKey, adminOps, inflight >>

\* VpnuserSerializer.update, as far as the ban goes
UpdateVpnuser(username, banned) ==
  /\ Vpnuser' = IF banned # Vpnuser[username].banned
                THEN [Vpnuser EXCEPT ![username].banned = banned,
                                     ![username].banned_reason =
                                        IF banned THEN "API_UPDATE" ELSE "NA"]
                ELSE Vpnuser
  /\ res' = [op |-> "update", user |-> username]
  /\ UNCHANGED << REAL_VPN_SERVERS, OutlineServer, OutlineUser, LoadBalancer, Location,
                  backend, nextKey, clock, adminOps, inflight >>

DeleteInit ==
  /\ REAL_VPN_SERVERS \in BOOLEAN
  /\ Vpnuser = [u \in Users |-> [channel |-> IF u = "u1" THEN "TG" ELSE "EM",
                                  reputation |-> 0, banned |-> FALSE,
                                  banned_reason |-> "NA", delete_date |-> None]]
  /\ OutlineServer = Fleet
  /\ OutlineUser = << >>
  /\ LoadBalancer = { s \in DOMAIN Fleet : Fleet[s].type # "legacy" }
  /\ Location = Locations
  /\ backend = {}
  /\ nextKey = 1
  /\ clock = 0
  /\ adminOps = 0
  /\ inflight = << >>
  /\ res = Idle

DeleteNext ==
  \/ \E data \in Requests : Create(data)
  \/ \E username \in {"u1", "ghost"} : Destroy(username)
  \/ \E banned \in BOOLEAN : UpdateVpnuser("u1", banned)

DeleteSpec == DeleteInit /\ [][DeleteNext]_vars

(***************************************************************************)
(* create for a user with a history: an older basic key that an earlier    *)
(* create has marked removed, and the current one, on servers that work or *)
(* are blocked.                                                            *)
(***************************************************************************)
\* the older key is on server old and the current one on server cur; their
\* key ids are beyond the ones the backends hand out in the model
HistoryRows(user, old, cur) ==
  << [NewRow(user, old, MaxKeys + 1, 0, None, "legacy", 0) EXCEPT
        !.removed = TRUE, !.exists_on_server = FALSE, !.updated_date = 2],
     NewRow(user, cur, MaxKeys + 2, 0, None, "legacy", 1) >>

RepInit ==
  /\ REAL_VPN_SERVERS \in BOOLEAN
  /\ Vpnuser = [u \in Users |-> [channel |-> IF u = "u1" THEN "TG" ELSE "EM",
                                  reputation |-> 0, banned |-> FALSE]]
  /\ \E blocked \in SUBSET {1, 2} :
       OutlineServer = [s \in DOMAIN Fleet |-> [Fleet[s] EXCEPT !.is_blocked = s \in blocked]]
  /\ \E old \in {1, 2}, cur \in {1, 2} :
       /\ OutlineUser = HistoryRows("u1", old, cur)
       /\ backend = IF REAL_VPN_SERVERS THEN { << cur, MaxKeys + 2 >> } ELSE {}
  /\ LoadBalancer = { s \in DOMAIN Fleet : Fleet[s].type # "legacy" }
  /\ Location = Locations
  /\ nextKey = 1
  /\ clock = 2
  /\ adminOps = 0
  /\ inflight = << >>
  /\ res = Idle

RepNext == \E data \in Requests : Create(data)

RepSpec == RepInit /\ [][RepNext]_vars

(***************************************************************************)
(* OutlineUser.deactivate and OutlineUser.reactivate on their own: one     *)
(* stored credential in any state, and one call.                           *)
(***************************************************************************)
KeyRows ==
  { [NewRow("u1", 1, 1, 0, None, request_type, 0) EXCEPT
       !.removed = f.removed, !.active = f.active, !.exists_on_server = f.exists_on_server,
       !.user_issue = f.user_issue, !.transfer = f.transfer,
       !.delete_date = f.delete_date, !.deletion_cause = f.deletion_cause] :
      request_type \in RequestTypes,
      f \in [removed : BOOLEAN, active : BOOLEAN, exists_on_server : BOOLEAN,
              user_issue : {None, 1}, transfer : {None, 1},
              delete_date : {None, 5}, deletion_cause : {"NA", "INACTIVE"}] }

KeyInit ==
  /\ REAL_VPN_SERVERS = FALSE
  /\ Vpnuser = [u \in Users |-> [channel |-> "TG", reputation |-> 0, banned |-> FALSE]]
  /\ OutlineServer = Fleet
  /\ \E row \in KeyRows : OutlineUser = << row >>
  /\ LoadBalancer = {}
  /\ Location = {}
  /\ backend = {}
  /\ nextKey = 1
  /\ clock = 0
  /\ adminOps = 0
  /\ inflight = << >>
  /\ res = Idle

\* key.deactivate(issue, transfer)
Deactivate(issue, transfer) ==
  /\ res = Idle
  /\ OutlineUser' = [OutlineUser EXCEPT ![1] = deactivate(@, issue, transfer, clock + 1)]
  /\ clock' = clock + 1
  /\ res' = [op |-> "deactivate", before |-> OutlineUser[1], issue |-> issue,
              transfer |-> transfer]
  /\ UNCHANGED << REAL_VPN_SERVERS, Vpnuser, OutlineServer, LoadBalancer, Location,
                  backend, nextKey, adminOps, inflight >>

\* key.reactivate()
Reactivate ==
  /\ res = Idle
  /\ OutlineUser' = [OutlineUser EXCEPT ![1] = reactivate(@, clock + 1)]
  /\ clock' = clock + 1
  /\ res' = [op |-> "reactivate", before |-> OutlineUser[1], issue |-> None,
              transfer |-> None]
  /\ UNCHANGED << REAL_VPN_SERVERS, Vpnuser, OutlineServer, LoadBalancer, Location,
                  backend, nextKey, adminOps, inflight >>

KeyNext ==
  \/ \E issue \in {None, 1, 2}, transfer \in {None, 1, 2} : Deactivate(issue, transfer)
  \/ Reactivate

KeySpec == KeyInit /\ [][KeyNext]_vars

(***************************************************************************)
(* remove_key_from_server on its own: one call on some of the stored keys, *)
(* with a fault for each key, on backends that have or lack the keys.      *)
(***************************************************************************)
RevokeServers == {1, 5, 6}

\* one row of u1 per entry of on, the k-th with outline_key_id k
RevokeRows(on) == [k \in DOMAIN on |-> NewRow("u1", on[k], k, 0, None, Fleet[on[k]].type, 0)]

RevokeInit ==
  /\ REAL_VPN_SERVERS \in BOOLEAN
  /\ Vpnuser = [u \in Users |-> [channel |-> "TG", reputation |-> 0, banned |-> FALSE]]
  /\ \E down \in SUBSET {1} :
       OutlineServer = [s \in DOMAIN Fleet |-> [Fleet[s] EXCEPT !.active = s \notin down]]
  /\ \E on \in UNION { [1..n -> RevokeServers] : n \in 1..MaxKeys } :
       /\ OutlineUser = RevokeRows(on)
       /\ backend \in SUBSET { << on[k], k >> : k \in DOMAIN on }
  /\ LoadBalancer = {}
  /\ Location = Locations
  /\ nextKey = 1
  /\ clock = 0
  /\ adminOps = 0
  /\ inflight = << >>
  /\ res = Idle

\* OutlineuserSerializer.remove_key_from_server(keys) on the dicts of ids
Revoke(ids) ==
  /\ res = Idle
  /\ \E fault \in ManagerFaults(Cardinality(ids)) :
       LET keys == get_key_dict(OutlineUser, ids)
           rm == remove_key_from_server(OutlineUser, backend, keys, fault)
       IN /\ OutlineUser' = rm.table
          /\ backend' = rm.backend
          /\ res' = [op |-> "remove", keys |-> keys, fault |-> fault, failed |-> rm.failed,
                     calls |-> rm.calls, raised |-> rm.raised,
                     before |-> OutlineUser, backend |-> backend]
  /\ UNCHANGED << REAL_VPN_SERVERS, Vpnuser, OutlineServer, LoadBalancer, Location,
                  nextKey, clock, adminOps, inflight >>

RevokeNext == \E ids \in SUBSET DOMAIN OutlineUser : Revoke(ids)

RevokeSpec == RevokeInit /\ [][RevokeNext]_vars

(***************************************************************************)
(* The periodic commands get_active_users, deactivate_keys and             *)
(* clean_up_old_keys on a stored population, with the days going by.       *)
(***************************************************************************)
PURGE_INACTIVE_NOTIFY == 30

\* the populations: a basic key, a central key, the two keys of a location
\* group, and a basic key with a central one
PurgeFleets == { << 1 >>, << 5 >>, << 3, 4 >>, << 1, 5 >> }

\* the k-th row is on server on[k]; rows on location servers share group 1
PurgeRows(on, fresh) ==
  [k \in DOMAIN on |->
     NewRow("u1", on[k], k, 0,
            IF Fleet[on[k]].dist_model = LOCATIONED THEN 1 ELSE None,
            Fleet[on[k]].type,
            IF k \in fresh THEN PURGE_INACTIVE_NOTIFY + 1 ELSE k)]

PurgeInit ==
  /\ REAL_VPN_SERVERS \in BOOLEAN
  /\ Vpnuser = [u \in Users |-> [channel |-> "TG", reputation |-> 0, banned |-> FALSE]]
  /\ OutlineServer = Fleet
  /\ \E on \in PurgeFleets, fresh \in {{}, {1}} :
       /\ OutlineUser = PurgeRows(on, fresh)
       /\ backend = IF REAL_VPN_SERVERS THEN { << on[k], k >> : k \in DOMAIN on } ELSE {}
  /\ LoadBalancer = {}
  /\ Location = Locations
  /\ nextKey = 1
  /\ clock = PURGE_INACTIVE_NOTIFY + 1
  /\ adminOps = 0
  /\ inflight = << >>
  /\ res = Idle

\* a day goes by
Tick ==
  /\ clock < PURGE_INACTIVE_NOTIFY + 1 + MaxTicks
  /\ clock' = clock + 1
  /\ res' = [op |-> "tick"]
  /\ UNCHANGED << REAL_VPN_SERVERS, Vpnuser, OutlineServer, OutlineUser, LoadBalancer,
                  Location, backend, nextKey, adminOps, inflight >>

\* get_active_users: seen are the rows the monitoring system reports
GetActiveUsers(seen) ==
  LET last_date == clock - PURGE_INACTIVE_NOTIFY
  IN /\ OutlineUser' =
          [i \in DOMAIN OutlineUser |->
             IF i \in seen THEN [OutlineUser[i] EXCEPT !.active = TRUE]
             ELSE IF OutlineUser[i].created_date < last_date
             THEN [OutlineUser[i] EXCEPT !.active = FALSE, !.delete_date = clock,
                                         !.deletion_cause = "INACTIVE"]
             ELSE OutlineUser[i]]
     /\ res' = [op |-> "get_active_users", seen |-> seen]
     /\ UNCHANGED << REAL_VPN_SERVERS, Vpnuser, OutlineServer, LoadBalancer, Location,
                     backend, nextKey, clock, adminOps, inflight >>

\* a deactivate_keys that leaves the keys that fell due on the target date
returning_before(table, target_date) ==
  { i \in DOMAIN table : /\ table[i].delete_date # None
                          /\ table[i].delete_date < target_date
                          /\ table[i].deletion_cause = "INACTIVE"
                          /\ table[i].active /\ ~table[i].removed }

\* deactivate_keys: the keys of the first update
returning(table, target_date) ==
  { i \in DOMAIN table : /\ table[i].delete_date # None
                          /\ table[i].delete_date <= target_date
                          /\ table[i].deletion_cause = "INACTIVE"
                          /\ table[i].active /\ ~table[i].removed }

\* the dicts of keys whose id is not in failed, in their order
not_failed(keys, failed) ==
  SelectSeq(keys, LAMBDA key : \A k \in DOMAIN failed : failed[k] # key.id)

\* deactivate_keys <days>
DeactivateKeys(days) ==
  LET target_date == clock - days
      cleared == [i \in DOMAIN OutlineUser |->
                    IF i \in returning(OutlineUser, target_date)
                    THEN [OutlineUser[i] EXCEPT !.delete_date = None, !.deletion_cause = "NA"]
                    ELSE OutlineUser[i]]
      inactive_keys == { i \in DOMAIN cleared : /\ cleared[i].delete_date # None
                                                  /\ cleared[i].delete_date <= target_date
                                                  /\ cleared[i].deletion_cause = "INACTIVE"
                                                  /\ ~cleared[i].active /\ ~cleared[i].removed }
      key_list == get_key_dict(cleared, inactive_keys)
  IN \E fault \in Faults(Cardinality(inactive_keys)) :
       LET rm == remove_key_from_server(cleared, backend, key_list, fault)
           deleted_keys == not_failed(key_list, rm.failed)
       IN /\ OutlineUser' = IF rm.raised # "" THEN rm.table
                             ELSE remove_keys_from_db(rm.table, deleted_keys, None, clock)
          /\ backend' = rm.backend
          /\ res' = [op |-> "deactivate_keys", days |-> days, now |-> clock,
                     reactivated |-> returning(OutlineUser, target_date),
                     keys |-> inactive_keys, failed |-> rm.failed, raised |-> rm.raised]
          /\ UNCHANGED << REAL_VPN_SERVERS, Vpnuser, OutlineServer, LoadBalancer, Location,
                          nextKey, clock, adminOps, inflight >>

\* clean_up_old_keys: the newest key in force of each user
latest_active_keys(table) ==
  { i \in DOMAIN table :
      /\ table[i].active /\ table[i].exists_on_server /\ ~table[i].removed
      /\ \A j \in outline_keys(table, table[i].user) :
           (table[j].active /\ table[j].exists_on_server /\ ~table[j].removed)
             => table[j].updated_date <= table[i].updated_date }

\* clean_up_old_keys
CleanUpOldKeys ==
  LET old_keys == { i \in DOMAIN OutlineUser : OutlineUser[i].active }
                    \ latest_active_keys(OutlineUser)
      key_list == get_key_dict(OutlineUser, old_keys)
  IN \E fault \in Faults(Cardinality(old_keys)) :
       LET rm == remove_key_from_server(OutlineUser, backend, key_list, fault)
           deleted_keys == not_failed(key_list, rm.failed)
           removed == remove_keys_from_db(rm.table, deleted_keys, None, clock)
           deleted_keys_ids == { deleted_keys[k].id : k \in DOMAIN deleted_keys }
       IN /\ OutlineUser' = IF rm.raised # "" THEN rm.table
                             ELSE [i \in DOMAIN removed |->
                                     IF i \in deleted_keys_ids
                                     THEN [removed[i] EXCEPT !.active = FALSE]
                                     ELSE removed[i]]
          /\ backend' = rm.backend
          /\ res' = [op |-> "clean_up_old_keys", keys |-> old_keys, failed |-> rm.failed,
                     raised |-> rm.raised]
          /\ UNCHANGED << REAL_VPN_SERVERS, Vpnuser, OutlineServer, LoadBalancer, Location,
                          nextKey, clock, adminOps, inflight >>

PurgeNext ==
  \/ Tick
  \/ \E seen \in SUBSET DOMAIN OutlineUser : GetActiveUsers(seen)
  \/ \E days \in 1..MaxDays : DeactivateKeys(days)
  \/ CleanUpOldKeys

PurgeSpec == PurgeInit /\ [][PurgeNext]_vars

(***************************************************************************)
(* get_server on its own, as ServerSelectionTests calls it: a fleet of     *)
(* legacy servers of one level, a table that loads them, and a new user.   *)
(* Every server carries live rows (active, not removed) and rows that are  *)
(* inactive or removed, which the annotation must not count.               *)
(***************************************************************************)
TEST_LEVEL == 10
TEST_LOADS == << 40, 20, 10, 5 >>     \* live rows of server1..server4 in testServerSelection
TEST_DEAD == << 0, 20, 30, 35 >>      \* its inactive / removed / inactive and removed rows

\* the rows of server s: live of them live, dead of them not, in the three
\* ways a row can be not live
LoadRows(s, live, dead) ==
  [k \in 1..(live + dead) |->
     [NewRow("u2", s, k, 0, None, "legacy", 0) EXCEPT
        !.active = (k <= live) \/ (k % 3 = 0),
        !.removed = (k > live) /\ (k % 3 # 1)]]

RECURSIVE LoadTable(_, _, _)
LoadTable(loads, dead, n) ==
  IF n = 0 THEN << >>
  ELSE LoadTable(loads, dead, n - 1) \o LoadRows(n, loads[n], dead[n])

\* the fleets tried: the one of the test, and every small one
SelFleets ==
  { [loads |-> TEST_LOADS, dead |-> TEST_DEAD] }
    \cup UNION { [loads : [1..n -> 0..MaxLoad], dead : { [k \in 1..n |-> 0], [k \in 1..n |-> k] }] :
                  n \in 1..MaxPool }

SelInit ==
  /\ REAL_VPN_SERVERS = FALSE
  /\ Vpnuser = [u \in Users |-> [channel |-> "TG", reputation |-> 0, banned |-> FALSE]]
  /\ \E f \in SelFleets :
       /\ OutlineServer = [s \in DOMAIN f.loads |-> Server("legacy", TEST_LEVEL, BASIC, None, "TG")]
       /\ OutlineUser = LoadTable(f.loads, f.dead, Len(f.loads))
  /\ LoadBalancer = {}
  /\ Location = {}
  /\ backend = {}
  /\ nextKey = 1
  /\ clock = 0
  /\ adminOps = 0
  /\ inflight = << >>
  /\ res = Idle

\* ser.get_server(vuser, level, dist_model) for the basic model: the query
\* result in the database's order, then find_server with its draw
GetServer(user, level) ==
  /\ res = Idle
  /\ \E pool \in candidate_pools(user, level, BASIC, None) :
       \E prob \in 0..100, tie \in BOOLEAN :
         res' = [op |-> "get_server", user |-> user, pool |-> pool, prob |-> prob,
                 server |-> find_server(pool, prob, tie)]
  /\ UNCHANGED << REAL_VPN_SERVERS, Vpnuser, OutlineServer, OutlineUser, LoadBalancer,
                  Location, backend, nextKey, clock, adminOps, inflight >>

SelNext == GetServer("u1", TEST_LEVEL)

SelSpec == SelInit /\ [][SelNext]_vars

(***************************************************************************)
(* find_server on its own: the queryset it is handed, as the sequence of   *)
(* annotated rows in the order of order_by('-usercount'), and one draw.    *)
(***************************************************************************)
FindPools ==
  { p \in UNION { [1..n -> [id : 1..n, usercount : (0..MaxLoad) \cup {HeavyLoad}]] :
                    n \in 1..MaxPool } :
      /\ \A k \in DOMAIN p : p[k].id = k
      /\ \A a, b \in DOMAIN p : a < b => p[a].usercount >= p[b].usercount }

FindInit ==
  /\ REAL_VPN_SERVERS = FALSE
  /\ Vpnuser = [u \in Users |-> [channel |-> "TG", reputation |-> 0, banned |-> FALSE]]
  /\ OutlineServer = << >>
  /\ OutlineUser = << >>
  /\ LoadBalancer = {}
  /\ Location = {}
  /\ backend = {}
  /\ nextKey = 1
  /\ clock = 0
  /\ adminOps = 0
  /\ inflight = << >>
  /\ \E pool \in FindPools : res = [op |-> "servers", pool |-> pool]

FindServer ==
  /\ res.op = "servers"
  /\ \E prob \in 0..100, tie \in BOOLEAN :
       res' = [op |-> "find_server", pool |-> res.pool, prob |-> prob,
               server |-> find_server(res.pool, prob, tie)]
  /\ UNCHANGED << REAL_VPN_SERVERS, Vpnuser, OutlineServer, OutlineUser, LoadBalancer,
                  Location, backend, nextKey, clock, adminOps, inflight >>

FindNext == FindServer

FindSpec == FindInit /\ [][FindNext]_vars

(***************************************************************************)
(* ReputationSystem.server_level on its own, for any REPUTATION_MAP the    *)
(* settings may hold (sorted or not) and any reputation.                   *)
(***************************************************************************)
ReputationMaps == UNION { [1..n -> 0..MaxRep] : n \in 0..MaxTiers }

LevelInit ==
  /\ REAL_VPN_SERVERS = FALSE
  /\ Vpnuser = [u \in Users |-> [channel |-> "TG", reputation |-> 0, banned |-> FALSE]]
  /\ OutlineServer = << >>
  /\ OutlineUser = << >>
  /\ LoadBalancer = {}
  /\ Location = {}
  /\ backend = {}
  /\ nextKey = 1
  /\ clock = 0
  /\ adminOps = 0
  /\ inflight = << >>
  /\ \E map \in ReputationMaps : res = [op |-> "settings", map |-> map]

ServerLevel(user_reputation) ==
  /\ res.op = "settings"
  /\ res' = [op |-> "server_level", map |-> res.map, reputation |-> user_reputation,
              level |-> level_scan(res.map, user_reputation, Len(res.map) - 1)]
  /\ UNCHANGED << REAL_VPN_SERVERS, Vpnuser, OutlineServer, OutlineUser, LoadBalancer,
                  Location, backend, nextKey, clock, adminOps, inflight >>

LevelNext == \E user_reputation \in (0 - 1)..(MaxRep + 1) : ServerLevel(user_reputation)

LevelSpec == LevelInit /\ [][LevelNext]_vars

(***************************************************************************)
(* get_server over fleets of mixed levels.  The servers take the levels    *)
(* of the test fleet, the user has a row on some of them, and the servers  *)
(* are all of one distribution model.                                      *)
(***************************************************************************)
TierLevels == {0, 1, 2}

\* the ids are in the order of the levels: the order of the query result
\* does not follow the ids
TierFleets ==
  { f \in UNION { [1..n -> [level : TierLevels, location : {None}, dist_model : {BASIC}]]
                    \cup [1..n -> [level : TierLevels, location : Locations,
                                   dist_model : {LOCATIONED}]] :
                  n \in 1..MaxPool } :
      \A a, b \in DOMAIN f : a < b => f[a].level <= f[b].level }

\* one live row of the user on each of the servers in used
RECURSIVE UsedRows(_, _, _)
UsedRows(user, used, n) ==
  IF n = 0 THEN << >>
  ELSE IF n \in used
  THEN Append(UsedRows(user, used, n - 1), NewRow(user, n, n, 0, None, "legacy", 0))
  ELSE UsedRows(user, used, n - 1)

TierInit ==
  /\ REAL_VPN_SERVERS = FALSE
  /\ Vpnuser = [u \in Users |-> [channel |-> "TG", reputation |-> 0, banned |-> FALSE]]
  /\ \E f \in TierFleets :
       /\ OutlineServer = [s \in DOMAIN f |->
                             Server("legacy", f[s].level, f[s].dist_model, f[s].location, "TG")]
       /\ \E used \in SUBSET DOMAIN f : OutlineUser = UsedRows("u1", used, Len(f))
  /\ LoadBalancer = {}
  /\ Location = Locations
  /\ backend = {}
  /\ nextKey = 1
  /\ clock = 0
  /\ adminOps = 0
  /\ inflight = << >>
  /\ res = Idle

\* ser.get_server(vuser, level, dist_model): one of the lists it may return
GetServerList(user, level, dist_model) ==
  /\ res = Idle
  /\ \E server_list \in get_server(user, level, dist_model) :
       res' = [op |-> "get_server_list", user |-> user, level |-> level,
               dist_model |-> dist_model, servers |-> server_list]
  /\ UNCHANGED << REAL_VPN_SERVERS, Vpnuser, OutlineServer, OutlineUser, LoadBalancer,
                  Location, backend, nextKey, clock, adminOps, inflight >>

TierNext ==
  \E level \in TierLevels, dist_model \in {BASIC, LOCATIONED} :
    GetServerList("u1", level, dist_model)

TierSpec == TierInit /\ [][TierNext]_vars

(***************************************************************************)
(* Properties.                                                             *)
(***************************************************************************)
Created == res.op = "create"
Succeeded == Created /\ res.status = "ok"
LiveRows(user) == { i \in outline_keys(OutlineUser, user) : ~OutlineUser[i].removed }
RowKey(i) == << OutlineUser[i].server, OutlineUser[i].outline_key_id >>

\* C1: when a location-based legacy create fails at the Nth server after N-1
\* servers were provisioned, it ends with NotAcceptable, no row of the attempt
\* is stored, and each of the N-1 keys got a revoke call and is gone from its
\* backend.
C1_FailedNth ==
  /\ Created
  /\ res.request_type = "legacy"
  /\ res.dist_model = LOCATIONED
  /\ res.provisioned # {}
  /\ \E s \in Servers : << "new", s, None >> \in res.calls

C1_AtomicRollback ==
  C1_FailedNth =>
    /\ res.status = "NotAcceptable"
    /\ \A i \in RowIds : RowKey(i) \notin res.provisioned
    /\ \A k \in res.provisioned : << "delete", k[1], k[2] >> \in res.calls /\ k \notin backend

\* C2: every user has at most one credential that is active, not removed and
\* not of request type legacy.
C2_AtMostOneNonLegacy ==
  \A u \in Users :
    Cardinality({ i \in RowIds : /\ OutlineUser[i].user = u
                                 /\ OutlineUser[i].active
                                 /\ ~OutlineUser[i].removed
                                 /\ OutlineUser[i].request_type \in {"central", "gtf"} }) <= 1

C2_Witness ==
  /\ Created
  /\ res.detail = "User already has a key"
  /\ \E i \in RowIds : /\ OutlineUser[i].user = res.user
                       /\ OutlineUser[i].active /\ ~OutlineUser[i].removed
                       /\ OutlineUser[i].request_type \in {"central", "gtf"}

\* C3: after a successful legacy create (basic or location-based) every other
\* row of the user is marked removed, whether or not its key could be revoked;
\* the user's rows that are not removed are the rows of this call, one for
\* basic, the rows of one new group for location-based, and get_keys returns
\* exactly them.
C3_OneCurrentSet ==
  (Succeeded /\ res.request_type = "legacy" /\ res.dist_model \in {BASIC, LOCATIONED}) =>
    /\ res.created # {}
    /\ res.created \subseteq outline_keys(OutlineUser, res.user)
    /\ \A i \in outline_keys(OutlineUser, res.user) \ res.created : OutlineUser[i].removed
    /\ LiveRows(res.user) = res.created
    /\ get_keys(OutlineUser, res.user) = res.created
    /\ res.dist_model = BASIC => Cardinality(res.created) = 1
    /\ res.dist_model = LOCATIONED =>
         \E g \in 1..(Len(OutlineUser) + 1) :
           /\ \A i \in res.created : OutlineUser[i].group_id = g
           /\ \A i \in RowIds \ res.created : OutlineUser[i].group_id # g

C3_Witness ==
  /\ Succeeded
  /\ res.request_type = "legacy"
  /\ \E i \in outline_keys(OutlineUser, res.user) \ res.created :
       /\ OutlineUser[i].removed
       /\ OutlineUser[i].exists_on_server
       /\ RowKey(i) \in backend

\* C4: a create for an unknown identifier, a banned user or a user who holds
\* a non-legacy credential is rejected with NotAcceptable before a server is
\* selected: no backend call, no new row, reputations and rows unchanged.
C4_Rejectable(r) ==
  \/ r.user \notin Users
  \/ Vpnuser[r.user].banned
  \/ \E i \in RowIds : OutlineUser[i].user = r.user /\ OutlineUser[i].request_type # "legacy"

C4_NoSideEffects ==
  [][ (res'.op = "create" /\ C4_Rejectable(res')) =>
        /\ res'.status = "NotAcceptable"
        /\ res'.servers = << >>
        /\ res'.calls = {}
        /\ res'.created = {}
        /\ OutlineUser' = OutlineUser
        /\ Vpnuser' = Vpnuser
        /\ backend' = backend ]_vars

C4_Witness ==
  /\ Created
  /\ res.detail = "User is banned"
  /\ res.user \in Users
  /\ Vpnuser[res.user].banned
  /\ outline_keys(OutlineUser, res.user) # {}

\* C5 as stated: a successful location-based create while N locations are
\* active stores exactly N rows, one on a server of each active location, all
\* with one non-null group_id.
C5_LocCreate == Succeeded /\ res.request_type = "legacy" /\ res.dist_model = LOCATIONED

C5_OneGroup ==
  \E g \in 1..(Len(OutlineUser) + 1) : \A i \in res.created : OutlineUser[i].group_id = g

C5_RowAt(l) == { i \in res.created : OutlineServer[OutlineUser[i].server].location = l }

C5_RowPerActiveLocation ==
  C5_LocCreate =>
    /\ Cardinality(res.created) = Cardinality(Location)
    /\ \A l \in Location : Cardinality(C5_RowAt(l)) = 1
    /\ C5_OneGroup

\* C5 as amended: the create stores one row for each active location that
\* has an eligible server (legacy, active, distributing, location-based, of
\* the user's channel, at the user's tier or above) and none for the other
\* locations; there is at least one row, and all rows carry one non-null
\* group_id.
C5_Eligible(user, l) ==
  \E s \in Servers :
    /\ OutlineServer[s].type = "legacy"
    /\ OutlineServer[s].active
    /\ OutlineServer[s].is_distributing
    /\ OutlineServer[s].dist_model = LOCATIONED
    /\ OutlineServer[s].user_src = Vpnuser[user].channel
    /\ OutlineServer[s].location = l
    /\ \A n \in 1..Len(REPUTATION_MAP) :
         Vpnuser[user].reputation >= REPUTATION_MAP[n] => OutlineServer[s].level >= n - 1

C5_RowPerServedLocation ==
  C5_LocCreate =>
    /\ res.created # {}
    /\ \A i \in res.created : OutlineServer[OutlineUser[i].server].location \in Location
    /\ \A l \in Location :
         Cardinality(C5_RowAt(l)) = IF C5_Eligible(res.user, l) THEN 1 ELSE 0
    /\ C5_OneGroup

C5_Witness ==
  /\ C5_LocCreate
  /\ Cardinality(Location) = 2
  /\ Cardinality(res.created) = 1

\* C6: every server create provisions a key on is working (not blocked,
\* distributing, active) when it is chosen.
C6_ProvisionsOnWorking ==
  Created =>
    \A k \in DOMAIN res.servers :
      LET srv == OutlineServer[res.servers[k]]
      IN ~srv.is_blocked /\ srv.is_distributing /\ srv.active

\* C7: for a user with at most one credential, increase_reputation for the
\* basic model is true exactly when there is a credential and its server is
\* not blocked, distributing and active.
C7_BasicIncrease ==
  \A u \in Users :
    Cardinality(outline_keys(OutlineUser, u)) <= 1 =>
      (increase_reputation(u, BASIC) <=>
         \E i \in RowIds :
           /\ OutlineUser[i].user = u
           /\ ~OutlineServer[OutlineUser[i].server].is_blocked
           /\ OutlineServer[OutlineUser[i].server].is_distributing
           /\ OutlineServer[OutlineUser[i].server].active)

C7_Witness ==
  \E u \in Users :
    /\ Cardinality(outline_keys(OutlineUser, u)) = 1
    /\ \E i \in outline_keys(OutlineUser, u) :
         /\ OutlineServer[OutlineUser[i].server].is_blocked
         /\ OutlineServer[OutlineUser[i].server].is_distributing
         /\ OutlineServer[OutlineUser[i].server].active
    /\ ~increase_reputation(u, BASIC)

\* C8: for the location-based model increase_reputation is true exactly when
\* at least one of the user's credentials is on a server that is not blocked,
\* distributing and active: true while one such server is left, false once
\* none is, false without credentials.
C8_Working(i) ==
  /\ ~OutlineServer[OutlineUser[i].server].is_blocked
  /\ OutlineServer[OutlineUser[i].server].is_distributing
  /\ OutlineServer[OutlineUser[i].server].active

C9_IdleInPool ==
  /\ res.op = "get_server"
  /\ Len(res.pool) >= 2
  /\ \E k \in DOMAIN res.pool :
       Cardinality({ i \in RowIds : /\ OutlineUser[i].server = res.pool[k].id
                                    /\ OutlineUser[i].active
                                    /\ ~OutlineUser[i].removed }) = 0

C9_ZeroLoadPriority ==
  C9_IdleInPool =>
    /\ \E k \in DOMAIN res.pool : res.pool[k].id = res.server
    /\ \A i \in RowIds :
         OutlineUser[i].server = res.server => ~OutlineUser[i].active \/ OutlineUser[i].removed

C9_Witness ==
  /\ C9_IdleInPool
  /\ res.prob = 100
  /\ \E k \in DOMAIN res.pool : res.pool[k].usercount = MaxLoad
  /\ \E i \in RowIds : OutlineUser[i].server = res.server

\* C10: on the table of testServerSelection (40, 20, 10 and 5 live rows on
\* servers 1..4, beside rows that are inactive or removed) the number of the
\* 101 draws for which find_server returns a server, over 101, is within 20%
\* of the server's inverse-load weight 1/15, 2/15, 4/15, 8/15.
C10_TestTable ==
  /\ res.op = "get_server"
  /\ Len(OutlineUser) = SumSeq(TEST_LOADS) + SumSeq(TEST_DEAD)
  /\ OutlineUser = LoadTable(TEST_LOADS, TEST_DEAD, Len(TEST_LOADS))

C10_Draws(s, tie) == Cardinality({ d \in 0..100 : find_server(res.pool, d, tie) = s })

C10_Within(draws, fifteenths) ==
  /\ 5 * (15 * draws - 101 * fifteenths) <= 101 * fifteenths
  /\ 5 * (101 * fifteenths - 15 * draws) <= 101 * fifteenths

C10_LoadFairness ==
  C10_TestTable =>
    \A tie \in BOOLEAN :
      /\ C10_Within(C10_Draws(1, tie), 1)
      /\ C10_Within(C10_Draws(2, tie), 2)
      /\ C10_Within(C10_Draws(3, tie), 4)
      /\ C10_Within(C10_Draws(4, tie), 8)

C10_Witness ==
  /\ C10_TestTable
  /\ res.server = 1
  /\ res.prob = 6

\* C11: on a pool of two or more candidates that all have live users, every
\* candidate is what find_server returns for at least one of the draws 0..100.
C11_BusyPool ==
  /\ res.op = "find_server"
  /\ Len(res.pool) >= 2
  /\ \A k \in DOMAIN res.pool : res.pool[k].usercount >= 1

C11_EveryCandidateDrawn ==
  C11_BusyPool =>
    \A k \in DOMAIN res.pool :
      \E d \in 0..100, tie \in BOOLEAN : find_server(res.pool, d, tie) = res.pool[k].id


\* C12: for a non-decreasing threshold list, server_level(r) is the highest
\* index i with r >= T[i], 0 when there is none, and no smaller reputation
\* gets a higher level.
C12_Sorted ==
  /\ res.op = "server_level"
  /\ \A a, b \in DOMAIN res.map : a < b => res.map[a] <= res.map[b]

C12_Reached(r) == { i \in 0..(Len(res.map) - 1) : r >= res.map[i + 1] }

C12_HighestTier ==
  C12_Sorted =>
    /\ C12_Reached(res.reputation) = {} => res.level = 0
    /\ C12_Reached(res.reputation) # {} =>
         /\ res.level \in C12_Reached(res.reputation)
         /\ \A i \in C12_Reached(res.reputation) : i <= res.level
    /\ \A r1 \in (0 - 1)..(MaxRep + 1) :
         r1 < res.reputation => level_scan(res.map, r1, Len(res.map) - 1) <= res.level

C12_Witness ==
  /\ C12_Sorted
  /\ res.map = REPUTATION_MAP
  /\ res.reputation = 2
  /\ res.level = 2


\* C13: a create that passes the checks on the user and finds no eligible
\* server, because its type has none left after every relaxation or because
\* no server at all is active and distributing, ends with NotAcceptable,
\* without a new row and without a backend call.
C13_NoEligibleServer ==
  /\ Created
  /\ ~C4_Rejectable(res)
  /\ \/ active_types = {}
     \/ res.request_type \in RequestTypes /\ res.servers = << >>

C13_TypedNoServer ==
  C13_NoEligibleServer =>
    /\ res.status = "NotAcceptable"
    /\ res.created = {}
    /\ res.provisioned = {}
    /\ res.calls = {}


\* C14: a central or gtf create that has provisioned a key on the backend and
\* then fails because the chosen server has no active load balancer ends with
\* NotAcceptable, stores no row for the key, and the key is gone from the
\* backend when create returns.
C14_FailedAfterProvisioning ==
  /\ Created
  /\ res.request_type \in {"central", "gtf"}
  /\ res.status # "ok"
  /\ res.provisioned # {}
  /\ \E k \in DOMAIN res.servers : res.servers[k] \notin LoadBalancer

C14_CompensatingRevocation ==
  C14_FailedAfterProvisioning =>
    /\ res.status = "NotAcceptable"
    /\ \A i \in RowIds : RowKey(i) \notin res.provisioned
    /\ \A k \in res.provisioned : k \notin backend


\* C15: when two create requests of one user have both passed the check for
\* an existing key before either stored its row, and both return success,
\* the user holds two different credentials that are active, not removed and
\* not legacy.
C15_Raced(p, q) ==
  /\ p # q
  /\ inflight[p].pc = "done"
  /\ inflight[q].pc = "done"
  /\ q \in inflight[p].pending

C15_NonLegacyLive(i, user) ==
  /\ i \in RowIds
  /\ OutlineUser[i].user = user
  /\ OutlineUser[i].request_type # "legacy"
  /\ OutlineUser[i].active
  /\ ~OutlineUser[i].removed

C15_CheckThenInsertRace ==
  \A p, q \in DOMAIN inflight :
    (C15_Raced(p, q) /\ inflight[p].status = "ok" /\ inflight[q].status = "ok") =>
      /\ inflight[p].row # inflight[q].row
      /\ C15_NonLegacyLive(inflight[p].row, inflight[p].user)
      /\ C15_NonLegacyLive(inflight[q].row, inflight[p].user)

C15_Witness ==
  \E p, q \in DOMAIN inflight :
    /\ C15_Raced(p, q)
    /\ inflight[p].status = "ok"
    /\ inflight[q].status = "ok"
    /\ Cardinality({ i \in RowIds : C15_NonLegacyLive(i, inflight[p].user) }) = 2


\* C16: DELETE on a user keeps the user row and sets banned, banned_reason
\* DELETED and delete_date = now + PROFILE_DELETE_DELAY; while the user is
\* banned every create for the user is rejected and stores nothing.
C16_DeleteBansOnly ==
  /\ DOMAIN Vpnuser = Users
  /\ (res.op = "destroy" /\ res.user \in Users) =>
       /\ Vpnuser[res.user].banned
       /\ Vpnuser[res.user].banned_reason = "DELETED"
       /\ Vpnuser[res.user].delete_date = res.now + PROFILE_DELETE_DELAY
  /\ (Created /\ res.user \in Users /\ Vpnuser[res.user].banned) =>
       /\ res.status = "NotAcceptable"
       /\ res.created = {}
       /\ res.calls = {}

C16_Witness ==
  /\ Created
  /\ res.detail = "User is banned"
  /\ Vpnuser[res.user].banned_reason = "DELETED"
  /\ Vpnuser[res.user].delete_date # None
  /\ \E i \in outline_keys(OutlineUser, res.user) : OutlineUser[i].removed


\* C17: deactivate and reactivate change a credential only if it is legacy.
\* On a legacy credential deactivate sets removed and stores the issue and
\* the transfer, reactivate clears removed, the issue and the transfer, and
\* both set delete_date to null and deletion_cause to NA, leaving the other
\* columns alone; a central or gtf credential is left exactly as it was.
C17_Called == res.op \in {"deactivate", "reactivate"}

C17_Kept ==
  { "user", "server", "outline_key_id", "reputation", "active", "exists_on_server",
    "group_id", "request_type" }

C17_LegacyOnly ==
  C17_Called =>
    LET before == res.before
        after == OutlineUser[1]
    IN IF before.request_type = "legacy"
       THEN /\ after.removed = (res.op = "deactivate")
            /\ after.user_issue = res.issue
            /\ after.transfer = res.transfer
            /\ after.delete_date = None
            /\ after.deletion_cause = "NA"
            /\ \A f \in C17_Kept : after[f] = before[f]
       ELSE after = before

C17_Witness ==
  /\ res.op = "deactivate"
  /\ res.before.request_type = "central"
  /\ ~res.before.removed
  /\ res.before.delete_date # None
  /\ res.issue # None
  /\ OutlineUser[1] = res.before


\* C18: with REAL_VPN_SERVERS off a create, of whatever request type, makes
\* no call to a backend, and the removal of the user's previous keys marks
\* each of them exists_on_server = False.
C18_Simulated == Created /\ ~REAL_VPN_SERVERS

C18_NoNetworkWhenSimulated ==
  C18_Simulated =>
    /\ res.calls = {}
    /\ res.provisioned = {}
    /\ res.status = "ok" => \A i \in res.last_keys : ~OutlineUser[i].exists_on_server


\* C19: for each target location get_server selects from the first non-empty
\* of the pools (never used, at the tier), (never used, above the tier),
\* (any, at the tier), (any, above the tier), and returns nothing for the
\* location when all four are empty; so a used server is returned only when
\* no unused server exists at the tier or above, and no returned server is
\* below the tier.
C19_Listed == res.op = "get_server_list"

C19_Targets == IF res.dist_model = LOCATIONED THEN Location ELSE {None}

C19_Used == { OutlineUser[i].server : i \in DOMAIN OutlineUser \cap outline_keys(OutlineUser, res.user) }

C19_Candidates(loc) ==
  { s \in Servers :
      /\ OutlineServer[s].type = "legacy"
      /\ OutlineServer[s].active /\ OutlineServer[s].is_distributing
      /\ OutlineServer[s].dist_model = res.dist_model
      /\ OutlineServer[s].user_src = Vpnuser[res.user].channel
      /\ (loc # None => OutlineServer[s].location = loc) }

C19_FirstPool(loc) ==
  LET at == { s \in C19_Candidates(loc) : OutlineServer[s].level = res.level }
      above == { s \in C19_Candidates(loc) : OutlineServer[s].level > res.level }
  IN IF at \ C19_Used # {} THEN at \ C19_Used
     ELSE IF above \ C19_Used # {} THEN above \ C19_Used
     ELSE IF at # {} THEN at
     ELSE above

C19_Chosen(loc) ==
  { k \in DOMAIN res.servers : loc # None => OutlineServer[res.servers[k]].location = loc }

C19_HigherUnused ==
  /\ C19_Listed
  /\ \E k \in DOMAIN res.servers :
       /\ res.servers[k] \notin C19_Used
       /\ OutlineServer[res.servers[k]].level > res.level
       /\ \E s \in C19_Used :
            /\ OutlineServer[s].level = res.level
            /\ OutlineServer[s].dist_model = res.dist_model
            /\ OutlineServer[s].location = OutlineServer[res.servers[k]].location


\* C20: when remove_key_from_server revokes a legacy or central key on an
\* active server, a timeout of the backend puts the key's id in the failed
\* list and leaves the stored row as it was, and a key the backend does not
\* have is marked exists_on_server = False and is not in the failed list.
C20_Revoked == res.op = "remove" /\ REAL_VPN_SERVERS /\ res.raised = ""

C20_OutlineKey(n) ==
  /\ OutlineServer[res.keys[n].server].type \in {"legacy", "central"}
  /\ OutlineServer[res.keys[n].server].active

C20_InFailed(id) == \E k \in DOMAIN res.failed : res.failed[k] = id

C20_TimedOut(n) == C20_OutlineKey(n) /\ res.fault[n] = "timeout"

C20_NotFound(n) ==
  /\ C20_OutlineKey(n)
  /\ res.fault[n] = "none"
  /\ << res.keys[n].server, res.keys[n].outline_key_id >> \notin res.backend

C20_TimeoutAndNotFound ==
  C20_Revoked =>
    \A n \in DOMAIN res.keys :
      /\ C20_TimedOut(n) =>
           /\ C20_InFailed(res.keys[n].id)
           /\ OutlineUser[res.keys[n].id] = res.before[res.keys[n].id]
           /\ OutlineUser[res.keys[n].id].exists_on_server
      /\ C20_NotFound(n) =>
           /\ ~C20_InFailed(res.keys[n].id)
           /\ ~OutlineUser[res.keys[n].id].exists_on_server

\* one call in which a key timed out and another was not on its backend
C20_Witness ==
  /\ C20_Revoked
  /\ \E n, m \in DOMAIN res.keys : C20_TimedOut(n) /\ C20_NotFound(m)


\* C21: when the backend call that revokes a legacy or central key on an
\* active server fails with something other than a timeout or a missing
\* key, remove_key_from_server raises instead of returning.
C21_OtherFailure(n) == C20_OutlineKey(n) /\ res.fault[n] = "error"

C21_OtherExceptionPropagates ==
  (res.op = "remove" /\ REAL_VPN_SERVERS) =>
    ((\E n \in DOMAIN res.keys : C21_OtherFailure(n)) => res.raised # "")


\* C22: when the HTTP DELETE for a key on a gtf server answers 200 or 404,
\* remove_key_from_server marks the key exists_on_server = False, leaves its
\* id out of the failed list, and makes no other backend call for the key.
C22_Answered(n) ==
  /\ OutlineServer[res.keys[n].server].type = "gtf"
  /\ res.fault[n] \in {"none", "manager_error"}
  /\ << "http_delete", res.keys[n].server, res.keys[n].outline_key_id >> \in res.calls

C22_GtfDeleteIsFinal ==
  (res.op = "remove" /\ REAL_VPN_SERVERS /\ res.raised = "") =>
    \A n \in DOMAIN res.keys :
      C22_Answered(n) =>
        /\ ~OutlineUser[res.keys[n].id].exists_on_server
        /\ ~C20_InFailed(res.keys[n].id)
        /\ << "delete", res.keys[n].server, res.keys[n].outline_key_id >> \notin res.calls

\* the part of C22 about the stored row alone
C22_MarkedGone ==
  (res.op = "remove" /\ REAL_VPN_SERVERS /\ res.raised = "") =>
    \A n \in DOMAIN res.keys :
      C22_Answered(n) => ~OutlineUser[res.keys[n].id].exists_on_server


\* C23: a create revokes the user's older keys and marks them removed only
\* once its new rows are stored; a create that fails before that leaves
\* every row the user held with its removed, active and exists_on_server
\* values, and makes no revoke call for it.
C23_Held == outline_keys(OutlineUser, res'.user)

C23_Kept(i) ==
  /\ OutlineUser'[i].removed = OutlineUser[i].removed
  /\ OutlineUser'[i].active = OutlineUser[i].active
  /\ OutlineUser'[i].exists_on_server = OutlineUser[i].exists_on_server
  /\ << "delete", OutlineUser[i].server, OutlineUser[i].outline_key_id >> \notin res'.calls
  /\ << "http_delete", OutlineUser[i].server, OutlineUser[i].outline_key_id >> \notin res'.calls

C23_Stored ==
  /\ res'.created # {}
  /\ res'.created \subseteq DOMAIN OutlineUser'
  /\ res'.created \cap DOMAIN OutlineUser = {}

C23_OldRevokedAfterPersist ==
  [][ res'.op = "create" =>
        /\ DOMAIN OutlineUser \subseteq DOMAIN OutlineUser'
        /\ (res'.status # "ok" /\ res'.created = {}) => \A i \in C23_Held : C23_Kept(i)
        /\ (\E i \in C23_Held : ~C23_Kept(i)) => C23_Stored ]_vars

\* a create has failed before storing anything while the user held a key in
\* force, and the key is still in force
C23_Witness ==
  /\ Created
  /\ res.status # "ok"
  /\ res.created = {}
  /\ res.provisioned # {}
  /\ \E i \in res.last_keys :
       /\ ~OutlineUser[i].removed
       /\ OutlineUser[i].active
       /\ OutlineUser[i].exists_on_server

\* a create has stored its row and then removed the user's older key
C23_Superseded ==
  /\ Succeeded
  /\ res.created # {}
  /\ \E i \in res.last_keys : OutlineUser[i].removed /\ ~OutlineUser[i].exists_on_server


\* C24: after a run of deactivate_keys no key that is active and not removed
\* carries an inactivity schedule (deletion_cause INACTIVE, delete_date set).
C24_Ran == res.op = "deactivate_keys"

C24_Scheduled(i) ==
  /\ OutlineUser[i].active
  /\ ~OutlineUser[i].removed
  /\ OutlineUser[i].deletion_cause = "INACTIVE"
  /\ OutlineUser[i].delete_date # None

C25_Stored(p) == inflight[p].pc = "done" /\ inflight[p].status = "ok"

C25_GroupIdsDistinct ==
  \A p, q \in DOMAIN inflight :
    (p # q /\ C25_Stored(p) /\ C25_Stored(q)) =>
      /\ inflight[p].group_id # inflight[q].group_id
      /\ \A i \in inflight[p].rows, j \in inflight[q].rows :
           OutlineUser[i].group_id # OutlineUser[j].group_id

\* the part of C25 about creates that are served one after the other
C25_SequentialDistinct ==
  \A p, q \in DOMAIN inflight :
    (p # q /\ C25_Stored(p) /\ C25_Stored(q)
       /\ q \notin inflight[p].pending /\ p \notin inflight[q].pending) =>
      inflight[p].group_id # inflight[q].group_id


\* C26: a user whose central or gtf key has been revoked from its backend
\* (by the user-delete path followed by an unban, by deactivate_keys or by
\* clean_up_old_keys) is not turned down by create because of that key.
C26_AllRevoked(user) ==
  /\ non_legacy_keys(user) # {}
  /\ \A i \in non_legacy_keys(user) : ~OutlineUser[i].exists_on_server

C26_RevokedKeyDoesNotBlock ==
  (Created /\ res.user \in Users /\ ~Vpnuser[res.user].banned /\ C26_AllRevoked(res.user)
     /\ res.created = {}) =>
    res.detail # "User already has a key"


\* C27: when a user with several basic keys, the older ones removed, gets a
\* new basic key, the reputation goes up exactly if the server of the user's
\* current key, the one that is not removed, is working.
C27_Current == get_keys(OutlineUser, res'.user)

C27_BasicCreate ==
  /\ res'.op = "create"
  /\ res'.status = "ok"
  /\ res'.request_type = "legacy"
  /\ res'.dist_model = BASIC
  /\ Cardinality(C27_Current) = 1
  /\ Cardinality(outline_keys(OutlineUser, res'.user)) > 1

C27_CurrentKeyDecides ==
  [][ C27_BasicCreate =>
        \A i \in C27_Current :
          Vpnuser'[res'.user].reputation =
            IF is_working(OutlineServer[OutlineUser[i].server])
            THEN after_new_key(Vpnuser[res'.user].reputation)
            ELSE Vpnuser[res'.user].reputation ]_vars


\* C28: whenever create ends in a failure, the table holds no row created by
\* that call, also when it is the write of the online config to the object
\* store that fails, after the row was stored.
C28_FailureStoresNothing ==
  (Created /\ res.status # "ok") => res.created \cap RowIds = {}

\* the part of C28 about the failures that happen inside create_keys
C28_FailureInCreateKeys ==
  (Created /\ res.status # "ok" /\ res.detail # "S3") => res.created \cap RowIds = {}


\* C29: once a key that stays inactive has an inactivity delete_date, a later
\* run of get_active_users does not move that delete_date further into the
\* future, so that deactivate_keys finds the key due in the end.
C29_StaysInactive(i) ==
  /\ ~OutlineUser[i].active
  /\ ~OutlineUser[i].removed
  /\ OutlineUser[i].deletion_cause = "INACTIVE"
  /\ OutlineUser[i].delete_date # None
  /\ i \notin res'.seen

C29_DeleteDateNotPostponed ==
  [][ res'.op = "get_active_users" =>
        \A i \in RowIds :
          C29_StaysInactive(i) => OutlineUser'[i].delete_date <= OutlineUser[i].delete_date ]_vars

\* C30: clean_up_old_keys leaves the keys that Vpnuser.get_keys returns for a
\* user as they are: it revokes and deactivates none of them, so the keys of
\* the current group of a location-based user are all kept.
C30_InForce(u) ==
  { i \in get_keys(OutlineUser, u) : OutlineUser[i].active /\ OutlineUser[i].exists_on_server }

C30_CurrentKeysKept ==
  [][ res'.op = "clean_up_old_keys" =>
        \A u \in Users : \A i \in C30_InForce(u) :
          /\ i \notin res'.keys
          /\ OutlineUser'[i] = OutlineUser[i] ]_vars

\* the part of C30 about the newest key in force of each user
C30_NewestKeyKept ==
  [][ res'.op = "clean_up_old_keys" =>
        \A i \in latest_active_keys(OutlineUser) :
          /\ i \notin res'.keys
          /\ OutlineUser'[i] = OutlineUser[i] ]_vars

====
